---- MODULE Spec2Model ----
(***************************************************************************)
(* Model of mirakc's tuner manager (src/src/tuner.rs): the TunerManager    *)
(* actor, its tuners, their activity (Inactive / Active(session)), the     *)
(* sessions' child processes and subscriber maps, and the message          *)
(* handlers StartStreaming, its asynchronous Subscribe reply,              *)
(* StopStreaming and the actor's stop.                                     *)
(***************************************************************************)
EXTENDS Integers, FiniteSets, Sequences, TLC

\* ------------------------------------------------------------------ bounds

\* Number of enabled tuners in the configuration (tuners[0 .. NumTuners-1]).
NumTuners == 2
\* Process ids the operating system hands out: 1 .. MaxPid.
MaxPid == 2
\* Largest serial number a session hands out before the model stops
\* subscribing to it (next_serial_number is an unbounded u32 counter).
MaxSerial == 3
\* Ordinary user priorities are 0 .. MaxPrio; GRAB is added to them.
MaxPrio == 1
\* Streams the clients have at once: requested and awaiting the reply to
\* Subscribe, or delivered and not yet stopped.
MaxStreams == 2

\* --------------------------------------------------------------- constants

\* TunerUserPriority::GRAB, the sentinel priority (i32::MAX).
GRAB == 2147483647

TunerIndexes == 0 .. (NumTuners - 1)
Pids == 1 .. MaxPid
Priorities == (0 .. MaxPrio) \cup {GRAB}
ChannelTypes == {"GR", "BS"}
Channels == {"1", "2"}

\* TunerConfig.channel_types of the i-th enabled tuner: even tuners receive
\* GR only, odd tuners GR and BS.
ConfigChannelTypes(i) == IF i % 2 = 0 THEN {"GR"} ELSE {"GR", "BS"}

\* ------------------------------------------------------------- identifiers

\* TunerSessionId { tuner_index, tuner_pid }
TunerSessionId(i, pid) == [tuner_index |-> i, tuner_pid |-> pid]

\* TunerSubscriptionId { session_id, serial_number }
TunerSubscriptionId(sid, n) == [session_id |-> sid, serial_number |-> n]

\* #[derive(Default)] for TunerSubscriptionId: all fields zero.
DefaultId == TunerSubscriptionId(TunerSessionId(0, 0), 0)

\* -------------------------------------------------------------------- users

\* TunerUserInfo::Web and ::Job carry no data the manager reads and are
\* treated alike by it (Web stands for both); TunerUserInfo::Tracker carries
\* the stream id it is pinned to.
WebInfo == [kind |-> "Web", stream_id |-> DefaultId]
TrackerInfo(id) == [kind |-> "Tracker", stream_id |-> id]

TunerUser(info, priority) == [info |-> info, priority |-> priority]

\* TunerUserPriority::is_grab
is_grab(priority) == priority = GRAB

\* ------------------------------------------------------- HashMap<u32, User>

MapInsert(m, k, v) == [x \in (DOMAIN m) \cup {k} |-> IF x = k THEN v ELSE m[x]]
MapRemove(m, k) == [x \in (DOMAIN m) \ {k} |-> m[x]]
EmptyMap == [x \in {} |-> 0]

\* ------------------------------------------------------------ TunerSession

\* Outcomes of Tuner::activate, decided by the command template, the shell
\* parser and the operating system:
\*   "RenderFailed"   make_command fails (mustache compile / render)
\*   "UnableToParse"  command_util::spawn_process cannot parse the command
\*   "UnableToSpawn"  command_util::spawn_process cannot spawn the process
\*   "StdioFailed"    the process was spawned, tokio_snippet::stdio fails
\*   "Ok"             the session is created
ActivateOutcomes ==
    {"Ok", "RenderFailed", "UnableToParse", "UnableToSpawn", "StdioFailed"}

\* The outcomes in which command_util::spawn_process has spawned a child.
SpawnedOutcomes == {"Ok", "StdioFailed"}

\* TunerSession::new on its success path.
NewSession(tuner_index, channel_type, channel, pid) ==
    [id |-> TunerSessionId(tuner_index, pid),
     channel_type |-> channel_type,
     channel |-> channel,
     subscribers |-> EmptyMap,
     next_serial_number |-> 1]

session_is_reuseable(session, channel_type, channel) ==
    session.channel_type = channel_type /\ session.channel = channel

\* Mutant: the serial is the number of subscribers plus one.
session_subscribe_reuses_serial(session, user) ==
    LET serial_number == Cardinality(DOMAIN session.subscribers) + 1 IN
    [session |-> [session EXCEPT
                    !.next_serial_number = @ + 1,
                    !.subscribers = MapInsert(@, serial_number, user)],
     id |-> TunerSubscriptionId(session.id, serial_number)]

\* TunerSession::subscribe: the session after the call and the id returned.
session_subscribe(session, user) ==
    LET serial_number == session.next_serial_number IN
    [session |-> [session EXCEPT
                    !.next_serial_number = serial_number + 1,
                    !.subscribers = MapInsert(@, serial_number, user)],
     id |-> TunerSubscriptionId(session.id, serial_number)]

\* Mutant: `>=` for `>`.
session_can_grab_ge(session, priority) ==
    \A s \in DOMAIN session.subscribers :
        priority >= session.subscribers[s].priority

session_can_grab(session, priority) ==
    \A s \in DOMAIN session.subscribers :
        priority > session.subscribers[s].priority

\* Mutant: the session id of the subscription is not compared.
session_stop_streaming_unchecked(session, id) ==
    LET s == [session EXCEPT
                !.subscribers = MapRemove(@, id.serial_number)]
    IN [session |-> s, result |-> "Ok",
        num_users |-> Cardinality(DOMAIN s.subscribers),
        unsubscribe |-> TRUE]

\* TunerSession::stop_streaming: the session after the call, the result, the
\* number of subscribers left (Ok only) and whether Unsubscribe was sent.
session_stop_streaming(session, id) ==
    IF session.id # id.session_id
    THEN [session |-> session, result |-> "SessionNotFound",
          num_users |-> 0, unsubscribe |-> FALSE]
    ELSE LET s == [session EXCEPT
                     !.subscribers = MapRemove(@, id.serial_number)]
         IN [session |-> s, result |-> "Ok",
             num_users |-> Cardinality(DOMAIN s.subscribers),
             unsubscribe |-> TRUE]

\* ----------------------------------------------------------- TunerActivity

Inactive == [kind |-> "Inactive"]
Active(session) == [kind |-> "Active", session |-> session]

activity_is_active(activity) == activity.kind = "Active"

activity_is_inactive(activity) == ~activity_is_active(activity)

activity_is_reuseable(activity, channel_type, channel) ==
    IF activity.kind = "Inactive" THEN FALSE
    ELSE session_is_reuseable(activity.session, channel_type, channel)

activity_can_grab(activity, priority) ==
    IF activity.kind = "Inactive" THEN TRUE
    ELSE session_can_grab(activity.session, priority)

\* The child processes a drop of this activity's session kills and reaps
\* (impl Drop for TunerSession).
DropKills(activity) ==
    IF activity.kind = "Active" THEN {activity.session.id.tuner_pid} ELSE {}

\* The session ids that end when this activity's value is dropped.
DropEnds(activity) ==
    IF activity.kind = "Active" THEN {activity.session.id} ELSE {}

\* TunerActivity::deactivate: *self = Inactive (the old value is dropped).
activity_deactivate(activity) == Inactive

\* Mutant: a session is installed although TunerSession::new failed.
activity_activate_fail_open(activity, tuner_index, channel_type, channel, outcome, pid) ==
    IF activity.kind = "Active"
    THEN [activity |-> activity, result |-> "panic", spawned |-> {}]
    ELSE [activity |-> Active(NewSession(tuner_index, channel_type,
                                         channel, pid)),
          result |-> outcome,
          spawned |-> IF outcome \in SpawnedOutcomes THEN {pid} ELSE {}]

\* TunerActivity::activate with the outcome of TunerSession::new.
\* result "panic" is the arm `Self::Active(_) => panic!(..)`.
activity_activate(activity, tuner_index, channel_type, channel, outcome, pid) ==
    IF activity.kind = "Active"
    THEN [activity |-> activity, result |-> "panic", spawned |-> {}]
    ELSE IF outcome = "Ok"
    THEN [activity |-> Active(NewSession(tuner_index, channel_type,
                                         channel, pid)),
          result |-> "Ok", spawned |-> {pid}]
    ELSE [activity |-> activity, result |-> outcome,
          spawned |-> IF outcome \in SpawnedOutcomes THEN {pid} ELSE {}]

\* TunerActivity::subscribe; result "panic" is the Inactive arm.
activity_subscribe(activity, user) ==
    IF activity.kind = "Inactive"
    THEN [activity |-> activity, result |-> "panic", id |-> DefaultId]
    ELSE LET r == session_subscribe(activity.session, user)
         IN [activity |-> Active(r.session), result |-> "Ok", id |-> r.id]

activity_stop_streaming(activity, id) ==
    IF activity.kind = "Inactive"
    THEN [activity |-> activity, result |-> "SessionNotFound",
          num_users |-> 0, unsubscribe |-> FALSE]
    ELSE LET r == session_stop_streaming(activity.session, id)
         IN [activity |-> Active(r.session), result |-> r.result,
             num_users |-> r.num_users, unsubscribe |-> r.unsubscribe]

\* -------------------------------------------------------------------- Tuner

\* Tuner::new
NewTuner(index) ==
    [index |-> index,
     channel_types |-> ConfigChannelTypes(index),
     activity |-> Inactive]

tuner_is_active(tuner) == activity_is_active(tuner.activity)

tuner_is_available(tuner) == activity_is_inactive(tuner.activity)

tuner_is_supported_type(tuner, channel_type) ==
    channel_type \in tuner.channel_types

tuner_is_available_for(tuner, channel_type) ==
    tuner_is_available(tuner) /\ tuner_is_supported_type(tuner, channel_type)

tuner_is_reuseable(tuner, channel_type, channel) ==
    activity_is_reuseable(tuner.activity, channel_type, channel)

\* Mutant: the GRAB sentinel is not tested.
tuner_can_grab_no_sentinel(tuner, priority) ==
    activity_can_grab(tuner.activity, priority)

tuner_can_grab(tuner, priority) ==
    is_grab(priority) \/ activity_can_grab(tuner.activity, priority)

\* Tuner::activate: make_command, then TunerActivity::activate.
tuner_activate(tuner, channel_type, channel, outcome, pid) ==
    IF outcome = "RenderFailed"
    THEN [tuner |-> tuner, result |-> outcome, spawned |-> {}]
    ELSE LET r == activity_activate(tuner.activity, tuner.index,
                                    channel_type, channel, outcome, pid)
         IN [tuner |-> [tuner EXCEPT !.activity = r.activity],
             result |-> r.result, spawned |-> r.spawned]

tuner_deactivate(tuner) ==
    [tuner EXCEPT !.activity = activity_deactivate(@)]

tuner_subscribe(tuner, user) ==
    LET r == activity_subscribe(tuner.activity, user)
    IN [tuner |-> [tuner EXCEPT !.activity = r.activity],
        result |-> r.result, id |-> r.id]

\* Mutant: the tuner is not deactivated when the last subscriber leaves.
tuner_stop_streaming_keeps(tuner, id) ==
    LET r == activity_stop_streaming(tuner.activity, id)
    IN IF r.result # "Ok"
       THEN [tuner |-> tuner, result |-> r.result, unsubscribe |-> FALSE]
       ELSE [tuner |-> [tuner EXCEPT !.activity = r.activity],
             result |-> "Ok", unsubscribe |-> r.unsubscribe]

\* Tuner::stop_streaming: deactivates when no subscriber is left.
tuner_stop_streaming(tuner, id) ==
    LET r == activity_stop_streaming(tuner.activity, id)
        t == [tuner EXCEPT !.activity = r.activity]
    IN IF r.result # "Ok"
       THEN [tuner |-> tuner, result |-> r.result, unsubscribe |-> FALSE]
       ELSE [tuner |-> IF r.num_users = 0 THEN tuner_deactivate(t) ELSE t,
             result |-> "Ok", unsubscribe |-> r.unsubscribe]

\* ------------------------------------------------------------- TunerManager

\* Mutant: the last tuner instead of the first.
FirstIndex_last(S) == CHOOSE i \in S : \A j \in S : i >= j

\* The first tuner, in index order, of those satisfying a predicate
\* (Iterator::find over self.tuners.iter_mut()); S is their index set.
FirstIndex(S) == CHOOSE i \in S : \A j \in S : i <= j

\* What TunerManager::activate_tuner returns and does:
\*   tuners   the tuner vector after the call
\*   result   "Ok", "TunerUnavailable", the activation error, or "panic"
\*   path     the branch taken: "tracker", "reuse", "free", "grab", "none"
\*   index    the tuner the branch selected (-1: none)
\*   id       the subscription id issued (DefaultId: none)
\*   killed   the pids killed and reaped by a session drop
\*   ended    the ids of the sessions dropped
\*   spawned  the pids spawned
Ret(ts, result, path, index, id, killed, ended, spawned) ==
    [tuners |-> ts, result |-> result, path |-> path, index |-> index,
     id |-> id, killed |-> killed, ended |-> ended, spawned |-> spawned]

\* `return Ok(tuner.subscribe(user))` on tuner i of ts.
SubscribeOn(ts, i, user, path, killed, ended, spawned) ==
    LET r == tuner_subscribe(ts[i], user)
    IN Ret([ts EXCEPT ![i] = r.tuner], r.result, path, i, r.id,
           killed, ended, spawned)

\* Mutant: a tracker whose tuner is Inactive has the tuner activated.
ActivateTracker_allocates(ts, user) ==
    LET i == user.info.stream_id.session_id.tuner_index IN
    IF i \notin DOMAIN ts
    THEN Ret(ts, "panic", "tracker", -1, DefaultId, {}, {}, {})
    ELSE IF tuner_is_active(ts[i])
    THEN SubscribeOn(ts, i, user, "tracker", {}, {}, {})
    ELSE SubscribeOn(
            [ts EXCEPT ![i].activity =
                Active(NewSession(i, "GR", "1",
                                  user.info.stream_id.session_id.tuner_pid))],
            i, user, "tracker", {}, {},
            {user.info.stream_id.session_id.tuner_pid})

\* Lines 128-134: a tracker is pinned to the tuner its stream id names.
ActivateTracker(ts, user) ==
    LET i == user.info.stream_id.session_id.tuner_index IN
    IF i \notin DOMAIN ts
    THEN Ret(ts, "panic", "tracker", -1, DefaultId, {}, {}, {})
    ELSE IF tuner_is_active(ts[i])
    THEN SubscribeOn(ts, i, user, "tracker", {}, {}, {})
    ELSE Ret(ts, "TunerUnavailable", "tracker", i, DefaultId, {}, {}, {})

\* Lines 145-153: activate the first available tuner, then subscribe.
ActivateFree(ts, i, channel_type, channel, user, outcome, pid) ==
    LET a == tuner_activate(ts[i], channel_type, channel, outcome, pid)
        ts1 == [ts EXCEPT ![i] = a.tuner]
    IN IF a.result # "Ok"
       THEN Ret(ts1, a.result, "free", i, DefaultId, {}, {}, a.spawned)
       ELSE SubscribeOn(ts1, i, user, "free", {}, {}, a.spawned)

\* Mutant: the tuner grabbed is activated without being deactivated.
ActivateGrab_keeps(ts, i, channel_type, channel, user, outcome, pid) ==
    LET a == tuner_activate(ts[i], channel_type, channel, outcome, pid)
        ts1 == [ts EXCEPT ![i] = a.tuner]
    IN IF a.result # "Ok"
       THEN Ret(ts1, a.result, "grab", i, DefaultId, {}, {}, a.spawned)
       ELSE SubscribeOn(ts1, i, user, "grab", {}, {}, a.spawned)

\* Lines 155-167: deactivate the first tuner that can be grabbed, activate
\* it with the new channel, then subscribe.
ActivateGrab(ts, i, channel_type, channel, user, outcome, pid) ==
    LET killed == DropKills(ts[i].activity)
        ended == DropEnds(ts[i].activity)
        d == tuner_deactivate(ts[i])
        a == tuner_activate(d, channel_type, channel, outcome, pid)
        ts1 == [ts EXCEPT ![i] = a.tuner]
    IN IF a.result # "Ok"
       THEN Ret(ts1, a.result, "grab", i, DefaultId, killed, ended, a.spawned)
       ELSE SubscribeOn(ts1, i, user, "grab", killed, ended, a.spawned)

\* Mutant: the free branch is tried before the reuse branch.
activate_tuner_free_first(ts, channel_type, channel, user, outcome, pid) ==
    LET reusable == {i \in DOMAIN ts :
                        tuner_is_reuseable(ts[i], channel_type, channel)}
        available == {i \in DOMAIN ts :
                        tuner_is_available_for(ts[i], channel_type)}
        grabbable == {i \in DOMAIN ts :
                        /\ tuner_is_supported_type(ts[i], channel_type)
                        /\ tuner_can_grab(ts[i], user.priority)}
    IN IF user.info.kind = "Tracker"
       THEN ActivateTracker(ts, user)
       ELSE IF available # {}
       THEN ActivateFree(ts, FirstIndex(available), channel_type, channel,
                         user, outcome, pid)
       ELSE IF reusable # {}
       THEN SubscribeOn(ts, FirstIndex(reusable), user, "reuse", {}, {}, {})
       ELSE IF grabbable # {}
       THEN ActivateGrab(ts, FirstIndex(grabbable), channel_type, channel,
                         user, outcome, pid)
       ELSE Ret(ts, "TunerUnavailable", "none", -1, DefaultId, {}, {}, {})

\* Mutant: the grab branch does not filter by supported channel type.
activate_tuner_grab_any_type(ts, channel_type, channel, user, outcome, pid) ==
    LET reusable == {i \in DOMAIN ts :
                        tuner_is_reuseable(ts[i], channel_type, channel)}
        available == {i \in DOMAIN ts :
                        tuner_is_available_for(ts[i], channel_type)}
        grabbable == {i \in DOMAIN ts :
                        tuner_can_grab(ts[i], user.priority)}
    IN IF user.info.kind = "Tracker"
       THEN ActivateTracker(ts, user)
       ELSE IF reusable # {}
       THEN SubscribeOn(ts, FirstIndex(reusable), user, "reuse", {}, {}, {})
       ELSE IF available # {}
       THEN ActivateFree(ts, FirstIndex(available), channel_type, channel,
                         user, outcome, pid)
       ELSE IF grabbable # {}
       THEN ActivateGrab(ts, FirstIndex(grabbable), channel_type, channel,
                         user, outcome, pid)
       ELSE Ret(ts, "TunerUnavailable", "none", -1, DefaultId, {}, {}, {})

\* TunerManager::activate_tuner
activate_tuner(ts, channel_type, channel, user, outcome, pid) ==
    LET reusable == {i \in DOMAIN ts :
                        tuner_is_reuseable(ts[i], channel_type, channel)}
        available == {i \in DOMAIN ts :
                        tuner_is_available_for(ts[i], channel_type)}
        grabbable == {i \in DOMAIN ts :
                        /\ tuner_is_supported_type(ts[i], channel_type)
                        /\ tuner_can_grab(ts[i], user.priority)}
    IN IF user.info.kind = "Tracker"
       THEN ActivateTracker(ts, user)
       ELSE IF reusable # {}
       THEN SubscribeOn(ts, FirstIndex(reusable), user, "reuse", {}, {}, {})
       ELSE IF available # {}
       THEN ActivateFree(ts, FirstIndex(available), channel_type, channel,
                         user, outcome, pid)
       ELSE IF grabbable # {}
       THEN ActivateGrab(ts, FirstIndex(grabbable), channel_type, channel,
                         user, outcome, pid)
       ELSE Ret(ts, "TunerUnavailable", "none", -1, DefaultId, {}, {}, {})

\* Mutant: the rollback does not deactivate the tuner.
deactivate_tuner_noop(ts, id) == ts

\* TunerManager::deactivate_tuner
deactivate_tuner(ts, id) ==
    LET i == id.session_id.tuner_index
    IN [ts EXCEPT ![i] = tuner_deactivate(ts[i])]

\* TunerManager::stop_streaming: the result of Tuner::stop_streaming is
\* discarded (`let _ =`); it is kept here for the record of the call.
stop_streaming(ts, id) ==
    LET i == id.session_id.tuner_index
        r == tuner_stop_streaming(ts[i], id)
    IN [tuners |-> [ts EXCEPT ![i] = r.tuner], result |-> r.result,
        unsubscribe |-> r.unsubscribe]

\* -------------------------------------------------------------------- state

VARIABLES
    tuners,     \* TunerManager.tuners: index -> Tuner
    children,   \* pids of the tuner processes spawned and not killed and reaped
    pending,    \* streams requested: Subscribe sent, its reply not yet handled
    held,       \* streams delivered to clients and not yet stopped
    stopped,    \* the actor has stopped
    last,       \* the last message handled and what it returned
    \* EpgSegment, on its own
    segment,    \* an EpgSegment
    section_in, \* the section of the last EpgSegment::update on it
    \* EpgSchedule, on its own
    sched,      \* an EpgSchedule
    sched_last, \* the last operation on it
    snap,       \* the overnight events its tables held at the last snapshot
    \* the Epg actor
    clock,      \* Jst::now()
    services,   \* Epg.services
    schedules,  \* Epg.schedules: ServiceTriple -> EpgSchedule
    max_elapsed,\* Epg.max_elapsed
    sweep,      \* the update_schedules run in flight
    timers,     \* runs scheduled with ctx.run_later and not yet started
    epg_last,   \* the last step of the Epg actor and what it did
    prepared,   \* per schedule, the day prepare_schedules last dealt with it
    \* EitEvent::is_overnight_event, on its own
    event_in,   \* the event it was called on
    midnight_in,\* the midnight it was called with
    overnight_out, \* what it returned
    \* the tasks of the Epg actor
    boot,       \* the environment of the actor and whether it has started
    runs,       \* the runs of tasks scheduled with ctx.run_later
    waits,      \* the futures passed to ctx.wait and not yet resolved
    task_last   \* the last step of a task and what it did

tuner_vars == <<tuners, children, pending, held, stopped, last>>
segment_vars == <<segment, section_in>>
sched_vars == <<sched, sched_last, snap>>
epg_vars ==
    <<clock, services, schedules, max_elapsed, sweep, timers, epg_last,
      prepared>>
event_vars == <<event_in, midnight_in, overnight_out>>
task_vars == <<boot, runs, waits, task_last>>
vars ==
    <<tuner_vars, segment_vars, sched_vars, epg_vars, event_vars, task_vars>>

\* The value of a variable of a component the specification at hand leaves
\* out.
Parked == "parked"
SegmentParked == segment = Parked /\ section_in = Parked
SchedParked == sched = Parked /\ sched_last = Parked /\ snap = Parked
EpgParked ==
    /\ clock = Parked /\ services = Parked /\ schedules = Parked
    /\ max_elapsed = Parked /\ sweep = Parked /\ timers = Parked
    /\ epg_last = Parked /\ prepared = Parked
EventParked ==
    event_in = Parked /\ midnight_in = Parked /\ overnight_out = Parked
TaskParked ==
    boot = Parked /\ runs = Parked /\ waits = Parked /\ task_last = Parked

\* A stream a client asked for: the subscription id issued for it, and
\* whether the session that issued the id has been dropped since.
Stream(id, ended) == [id |-> id, ended |-> ended]

\* The default id is the one id that can be built without a stream.
DefaultStream == Stream(DefaultId, FALSE)

\* The streams after the sessions with the ids in `sessions` were dropped.
EndStreams(streams, sessions) ==
    {[x EXCEPT !.ended = @ \/ x.id.session_id \in sessions] : x \in streams}

\* The record of a handled message: the handler (for StartStreaming the
\* branch of activate_tuner taken), the tuner it selected (-1: none), its
\* result and the message it sent to the session's broadcaster.
Last(op, index, result, sent) ==
    [op |-> op, index |-> index, result |-> result, sent |-> sent]

\* Actor::started / load_tuners: every enabled tuner, Inactive.
TunerInit ==
    /\ tuners = [i \in TunerIndexes |-> NewTuner(i)]
    /\ children = {}
    /\ pending = {}
    /\ held = {}
    /\ stopped = FALSE
    /\ last = Last("started", -1, "Ok", "none")

\* The tuner manager on its own.
Init ==
    /\ TunerInit /\ SegmentParked /\ SchedParked /\ EpgParked
    /\ EventParked /\ TaskParked

\* The users a StartStreaming message can carry: web users, and trackers of
\* a stream a client holds.
UserInfos == {WebInfo} \cup {TrackerInfo(x.id) : x \in held}
Users == {TunerUser(i, p) : i \in UserInfos, p \in Priorities}

\* The next serial of every session stays in bounds.
SerialInBounds(ts) ==
    \A i \in DOMAIN ts :
        ts[i].activity.kind = "Active"
            => ts[i].activity.session.next_serial_number <= MaxSerial + 1

\* The outcomes Tuner::activate can have for a request, and the pids the
\* operating system can give a spawned child: only a request that reaches
\* Tuner::activate has any, and a spawned child gets a pid no living child
\* has (a tuner being grabbed has given its pid back before the spawn).
Probe(channel_type, channel, user) ==
    activate_tuner(tuners, channel_type, channel, user, "RenderFailed", 1)
OutcomesFor(probe) ==
    IF probe.path \in {"free", "grab"} THEN ActivateOutcomes ELSE {"Ok"}
PidsFor(probe, outcome) ==
    IF probe.path \in {"free", "grab"} /\ outcome \in SpawnedOutcomes
    THEN Pids \ (children \ probe.killed)
    ELSE {1}

\* Handler<StartStreamingMessage>::handle up to the send of Subscribe.
StartStreaming(channel_type, channel, user, outcome, pid) ==
    /\ ~stopped
    /\ \E r \in {activate_tuner(tuners, channel_type, channel, user,
                                outcome, pid)} :
          /\ SerialInBounds(r.tuners)
          /\ r.result = "Ok"
                => Cardinality(pending) + Cardinality(held) < MaxStreams
          /\ r.spawned \cap (children \ r.killed) = {}
          /\ tuners' = r.tuners
          /\ children' = (children \ r.killed) \cup r.spawned
          /\ pending' = EndStreams(pending, r.ended) \cup
                (IF r.result = "Ok" THEN {Stream(r.id, FALSE)} ELSE {})
          /\ held' = EndStreams(held, r.ended)
          /\ last' = Last(r.path, r.index, r.result,
                          IF r.result = "Ok" THEN "Subscribe" ELSE "none")
    /\ UNCHANGED stopped

\* The continuation of the handler when the broadcaster's reply is Ok: the
\* stream, and with it the subscription id, reaches the client.
SubscribeOk(p) ==
    /\ ~stopped
    /\ p \in pending
    /\ pending' = pending \ {p}
    /\ held' = held \cup {p}
    /\ last' = Last("SubscribeReply", p.id.session_id.tuner_index, "Ok",
                    "none")
    /\ UNCHANGED <<tuners, children, stopped>>

\* The continuation when the send failed: act.deactivate_tuner(id).
SubscribeFailed(p) ==
    /\ ~stopped
    /\ p \in pending
    /\ LET i == p.id.session_id.tuner_index
           ended == DropEnds(tuners[i].activity)
       IN /\ tuners' = deactivate_tuner(tuners, p.id)
          /\ children' = children \ DropKills(tuners[i].activity)
          /\ pending' = EndStreams(pending \ {p}, ended)
          /\ held' = EndStreams(held, ended)
          /\ last' = Last("SubscribeReply", i, "MailboxError", "none")
    /\ UNCHANGED stopped

\* Handler<StopStreamingMessage>::handle.  A client sends it once for a
\* stream it holds, when it drops the stream.
StopStreaming(h) ==
    /\ ~stopped
    /\ \E r \in {stop_streaming(tuners, h.id)} :
        LET i == h.id.session_id.tuner_index
            dropped == tuner_is_active(tuners[i])
                       /\ ~tuner_is_active(r.tuners[i])
            ended == IF dropped THEN DropEnds(tuners[i].activity) ELSE {}
        IN /\ tuners' = r.tuners
           /\ children' = children \
                (IF dropped THEN DropKills(tuners[i].activity) ELSE {})
           /\ pending' = EndStreams(pending, ended)
           /\ held' = EndStreams(held \ {h}, ended)
           /\ last' = Last("StopStreaming", i, r.result,
                           IF r.unsubscribe THEN "Unsubscribe" ELSE "none")
    /\ UNCHANGED stopped

\* Actor::stopped: every tuner is deactivated; the actor's futures go with it.
Stopped ==
    /\ ~stopped
    /\ tuners' = [i \in DOMAIN tuners |-> tuner_deactivate(tuners[i])]
    /\ children' = children \
            UNION {DropKills(tuners[i].activity) : i \in DOMAIN tuners}
    /\ pending' = {}
    /\ held' = EndStreams(held, UNION {DropEnds(tuners[i].activity) :
                                          i \in DOMAIN tuners})
    /\ stopped' = TRUE
    /\ last' = Last("stopped", -1, "Ok", "none")

NotTuner ==
    UNCHANGED <<segment_vars, sched_vars, epg_vars, event_vars, task_vars>>

Next ==
    \/ \E channel_type \in ChannelTypes, channel \in Channels, user \in Users :
        \E outcome \in OutcomesFor(Probe(channel_type, channel, user)) :
          \E pid \in PidsFor(Probe(channel_type, channel, user), outcome) :
            StartStreaming(channel_type, channel, user, outcome, pid)
            /\ NotTuner
    \/ \E p \in pending : SubscribeOk(p) /\ NotTuner
    \/ \E p \in pending : SubscribeFailed(p) /\ NotTuner
    \/ \E h \in held \cup {DefaultStream} : StopStreaming(h) /\ NotTuner
    \/ Stopped /\ NotTuner

Spec == Init /\ [][Next]_vars

\* ------------------------------------------------- vocabulary of the claims

IsActive(i) == tuners[i].activity.kind = "Active"
IsInactive(i) == tuners[i].activity.kind = "Inactive"
SessionOf(i) == tuners[i].activity.session
SubscribersOf(i) == SessionOf(i).subscribers
PrioritiesOf(i) ==
    {SubscribersOf(i)[s].priority : s \in DOMAIN SubscribersOf(i)}
Supports(i, channel_type) == channel_type \in ConfigChannelTypes(i)
TunedTo(i, channel_type, channel) ==
    /\ IsActive(i)
    /\ SessionOf(i).channel_type = channel_type
    /\ SessionOf(i).channel = channel
MaxOf(S) == CHOOSE m \in S : \A x \in S : x <= m
MinOf(S) == CHOOSE m \in S : \A x \in S : m <= x

\* The session active on tuner i now is still the session of tuner i in the
\* tuner vector ts, with all the subscribers it has now.
SessionKept(ts, i) ==
    /\ ts[i].activity.kind = "Active"
    /\ LET old == tuners[i].activity.session
           new == ts[i].activity.session
       IN /\ new.id = old.id
          /\ new.channel_type = old.channel_type
          /\ new.channel = old.channel
          /\ new.next_serial_number >= old.next_serial_number
          /\ \A s \in DOMAIN old.subscribers :
                /\ s \in DOMAIN new.subscribers
                /\ new.subscribers[s] = old.subscribers[s]

\* The session active on tuner i now is dropped on the way to ts.
Evicted(ts, i) == IsActive(i) /\ ~SessionKept(ts, i)

\* P(channel_type, channel, user, r) holds of every StartStreaming message
\* the manager can receive in this state, r being what activate_tuner does
\* and returns for it under each outcome the environment can produce.
EveryStart(P(_, _, _, _)) ==
    ~stopped =>
    \A channel_type \in ChannelTypes, channel \in Channels, user \in Users :
      \A outcome \in OutcomesFor(Probe(channel_type, channel, user)) :
        \A pid \in PidsFor(Probe(channel_type, channel, user), outcome) :
          \A r \in {activate_tuner(tuners, channel_type, channel, user,
                                   outcome, pid)} :
            P(channel_type, channel, user, r)

\* ------------------------------------------------------------------- claims

\* C1 (grab safety): a StartStreaming request whose priority p is not GRAB
\* drops the session of a tuner only if every subscriber of that session has
\* a priority strictly less than p; a session with a subscriber of priority
\* >= p is kept.
C1_Holds(channel_type, channel, user, r) ==
    user.priority # GRAB
    => \A i \in TunerIndexes :
          Evicted(r.tuners, i) => \A q \in PrioritiesOf(i) : q < user.priority
C1_GrabSafety == EveryStart(C1_Holds)

\* A grab by a request of ordinary priority has happened: the last request
\* took the grab branch and succeeded, and no subscriber anywhere has GRAB.
C1_Witness ==
    /\ last.op = "grab"
    /\ last.result = "Ok"
    /\ \A i \in TunerIndexes : IsActive(i) => GRAB \notin PrioritiesOf(i)

\* C2 (can_grab equivalence): for an Active tuner whose subscribers have
\* priorities p1..pn, can_grab(p) <=> p = GRAB \/ p > max(pi); for an
\* Inactive tuner can_grab(p) holds for every p.
ProbePriorities == Priorities \cup {-1, MaxPrio + 1, GRAB - 1}
C2_CanGrabEquivalence ==
    \A i \in TunerIndexes, p \in ProbePriorities :
        IF IsInactive(i)
        THEN tuner_can_grab(tuners[i], p)
        ELSE PrioritiesOf(i) # {}
             => (tuner_can_grab(tuners[i], p)
                    <=> (p = GRAB \/ p > MaxOf(PrioritiesOf(i))))

\* A session with a GRAB subscriber and a lower one: GRAB can still grab it,
\* the highest ordinary priority cannot.
C2_Witness ==
    \E i \in TunerIndexes :
        /\ IsActive(i)
        /\ GRAB \in PrioritiesOf(i)
        /\ Cardinality(PrioritiesOf(i)) = 2
        /\ tuner_can_grab(tuners[i], GRAB)
        /\ ~tuner_can_grab(tuners[i], MaxPrio)

\* The request is an ordinary one: its user is not a tracker.
NonTracker(user) == user.info.kind # "Tracker"

\* Tuner i of ts holds the session tuner i has now plus one subscriber, the
\* user, under the session's next serial number.
SubscribedTo(ts, i, user) ==
    /\ ts[i].activity.kind = "Active"
    /\ ts[i].activity.session =
          [SessionOf(i) EXCEPT
              !.subscribers =
                  [s \in (DOMAIN SubscribersOf(i))
                            \cup {SessionOf(i).next_serial_number} |->
                      IF s = SessionOf(i).next_serial_number
                      THEN user ELSE SubscribersOf(i)[s]],
              !.next_serial_number = @ + 1]

\* Every tuner but i is in ts as it is now.
OthersUnchanged(ts, i) ==
    \A j \in TunerIndexes : j # i => ts[j] = tuners[j]

\* Active tuners stay Active with the session id they have, Inactive tuners
\* stay Inactive.
SameSessionIds(ts) ==
    \A i \in TunerIndexes :
        /\ ts[i].activity.kind = tuners[i].activity.kind
        /\ IsActive(i) => ts[i].activity.session.id = SessionOf(i).id

\* C3 (reuse takes precedence): a non-tracker request for a (channel_type,
\* channel) some active session is tuned to subscribes the user to such a
\* session whatever the user's priority; nothing is spawned, nothing is
\* killed, no tuner is deactivated and every tuner keeps its session id.
C3_Holds(channel_type, channel, user, r) ==
    (/\ NonTracker(user)
     /\ \E i \in TunerIndexes : TunedTo(i, channel_type, channel))
    => /\ r.result = "Ok"
       /\ r.path = "reuse"
       /\ r.index \in TunerIndexes
       /\ TunedTo(r.index, channel_type, channel)
       /\ SubscribedTo(r.tuners, r.index, user)
       /\ r.id = TunerSubscriptionId(SessionOf(r.index).id,
                                     SessionOf(r.index).next_serial_number)
       /\ OthersUnchanged(r.tuners, r.index)
       /\ SameSessionIds(r.tuners)
       /\ r.spawned = {} /\ r.killed = {} /\ r.ended = {}
C3_ReuseTakesPrecedence == EveryStart(C3_Holds)

\* The last request reused a session, and the subscriber it added has a
\* lower priority than a subscriber the session already had.
C3_Witness ==
    /\ last.op = "reuse"
    /\ last.result = "Ok"
    /\ IsActive(last.index)
    /\ LET newest == SessionOf(last.index).next_serial_number - 1
       IN /\ newest \in DOMAIN SubscribersOf(last.index)
          /\ \E s \in DOMAIN SubscribersOf(last.index) :
                /\ s < newest
                /\ SubscribersOf(last.index)[newest].priority
                      < SubscribersOf(last.index)[s].priority

\* The Inactive tuners supporting a channel type.
FreeFor(channel_type) ==
    {i \in TunerIndexes : IsInactive(i) /\ Supports(i, channel_type)}

\* C4 as stated (free before grab): for a non-tracker request with no
\* reusable session, if an Inactive tuner supports channel_type then the
\* lowest-indexed of them is activated and no active session is
\* deactivated; a session is evicted only when every tuner supporting
\* channel_type is Active.
C4_Original ==
    [][\A channel_type \in ChannelTypes, channel \in Channels, user \in Users,
          outcome \in ActivateOutcomes, pid \in Pids :
          (/\ StartStreaming(channel_type, channel, user, outcome, pid)
           /\ NonTracker(user)
           /\ ~\E i \in TunerIndexes : TunedTo(i, channel_type, channel))
          => /\ FreeFor(channel_type) # {}
                => /\ tuners'[MinOf(FreeFor(channel_type))].activity.kind
                        = "Active"
                   /\ \A j \in TunerIndexes : ~Evicted(tuners', j)
             /\ (\E j \in TunerIndexes : Evicted(tuners', j))
                => \A k \in TunerIndexes :
                      Supports(k, channel_type) => IsActive(k)
      ]_vars

\* C4 as amended: for a non-tracker request with no reusable session, if an
\* Inactive tuner supports channel_type then activation is attempted on the
\* lowest-indexed of them and on no other tuner: when it succeeds that tuner
\* is Active, tuned to the requested channel, with the user as its only
\* subscriber; when it fails the request fails with the activation error and
\* every tuner is as before; either way no active session is deactivated.
\* A session is evicted only when every tuner supporting channel_type is
\* Active.
C4_Holds(channel_type, channel, user, r) ==
    (/\ NonTracker(user)
     /\ ~\E i \in TunerIndexes : TunedTo(i, channel_type, channel))
    => /\ FreeFor(channel_type) # {}
          => /\ r.path = "free"
             /\ r.index = MinOf(FreeFor(channel_type))
             /\ OthersUnchanged(r.tuners, r.index)
             /\ r.killed = {} /\ r.ended = {}
             /\ \A j \in TunerIndexes : ~Evicted(r.tuners, j)
             /\ IF r.result = "Ok"
                THEN /\ r.tuners[r.index].activity.kind = "Active"
                     /\ LET n == r.tuners[r.index].activity.session
                        IN /\ n.channel_type = channel_type
                           /\ n.channel = channel
                           /\ n.subscribers = [s \in {1} |-> user]
                ELSE /\ r.result \in ActivateOutcomes \ {"Ok"}
                     /\ r.tuners = tuners
       /\ (\E j \in TunerIndexes : Evicted(r.tuners, j))
          => \A k \in TunerIndexes : Supports(k, channel_type) => IsActive(k)
C4_FreeBeforeGrab == EveryStart(C4_Holds)

\* The last request activated the free tuner 1 while tuner 0 was busy, and
\* tuner 0's session is still there.
C4_Witness ==
    /\ last.op = "free"
    /\ last.result = "Ok"
    /\ last.index = 1
    /\ IsActive(0)
    /\ IsActive(1)

\* can_grab(p) as the specification words it.
SpecCanGrab(i, p) ==
    p = GRAB \/ IsInactive(i) \/ \A q \in PrioritiesOf(i) : q < p

\* C5: a non-tracker request fails with TunerUnavailable exactly when no
\* active session is tuned to (channel_type, channel), no Inactive tuner
\* supports channel_type and no tuner supporting channel_type can be
\* grabbed with the user's priority; then every tuner is unchanged.
C5_Holds(channel_type, channel, user, r) ==
    NonTracker(user)
    => /\ (r.result = "TunerUnavailable")
          <=> (/\ ~\E i \in TunerIndexes : TunedTo(i, channel_type, channel)
               /\ FreeFor(channel_type) = {}
               /\ ~\E i \in TunerIndexes :
                      Supports(i, channel_type) /\ SpecCanGrab(i, user.priority))
       /\ r.result = "TunerUnavailable"
          => /\ r.tuners = tuners
             /\ r.spawned = {} /\ r.killed = {} /\ r.ended = {}
C5_UnavailableExactly == EveryStart(C5_Holds)

\* The last request went through every branch and failed TunerUnavailable.
C5_Witness ==
    /\ last.op = "none"
    /\ last.result = "TunerUnavailable"
    /\ \E i \in TunerIndexes : IsActive(i)

\* C6: a tracker request only ever subscribes to the session on the tuner
\* its stream id names: it spawns nothing, activates and deactivates no
\* tuner, and fails with TunerUnavailable, all tuners unchanged, when that
\* tuner is Inactive.
C6_Holds(channel_type, channel, user, r) ==
    ~NonTracker(user)
    => LET k == user.info.stream_id.session_id.tuner_index
       IN /\ r.path = "tracker"
          /\ r.spawned = {} /\ r.killed = {} /\ r.ended = {}
          /\ SameSessionIds(r.tuners)
          /\ OthersUnchanged(r.tuners, k)
          /\ IF IsInactive(k)
             THEN r.result = "TunerUnavailable" /\ r.tuners = tuners
             ELSE /\ r.result = "Ok"
                  /\ r.index = k
                  /\ SubscribedTo(r.tuners, k, user)
C6_TrackerNeverAllocates == EveryStart(C6_Holds)

\* The last request was a tracker's and failed on its Inactive (free) tuner
\* while another tuner has a session it could have reused.
C6_Witness ==
    /\ last.op = "tracker"
    /\ last.result = "TunerUnavailable"
    /\ IsInactive(last.index)
    /\ \E j \in TunerIndexes : j # last.index /\ IsActive(j)

\* C7 (session drop kills the child): in every reachable state the tuner
\* child processes alive are exactly the processes of the Active sessions,
\* one per Active tuner.
C7_ChildrenAreSessionProcesses ==
    /\ children = {SessionOf(i).id.tuner_pid :
                      i \in {j \in TunerIndexes : IsActive(j)}}
    /\ \A i, j \in TunerIndexes :
          (IsActive(i) /\ IsActive(j) /\ i # j)
          => SessionOf(i).id.tuner_pid # SessionOf(j).id.tuner_pid

\* The streams a StopStreaming message can name, and the tuner an id names.
StopStreams == held \cup {DefaultStream}
TunerOf(id) == id.session_id.tuner_index

\* C8: stop_streaming(id) against a tuner that is Inactive, or whose session
\* id differs from id.session_id, returns SessionNotFound, changes no tuner
\* and kills no process, and sends no Unsubscribe.
C8_StaleStopIsRejected ==
    [][last'.op = "StopStreaming"
       => \A h \in StopStreams :
            (/\ StopStreaming(h)
             /\ \/ IsInactive(TunerOf(h.id))
                \/ SessionOf(TunerOf(h.id)).id # h.id.session_id)
            => /\ last'.result = "SessionNotFound"
               /\ last'.sent = "none"
               /\ tuners' = tuners
               /\ children' = children
      ]_vars

\* The last message was a StopStreaming rejected by an Active tuner.
C8_Witness ==
    /\ last.op = "StopStreaming"
    /\ last.result = "SessionNotFound"
    /\ IsActive(last.index)

\* C9: stop_streaming(id) with the id of the tuner's current session returns
\* Ok and removes exactly the subscriber with serial id.serial_number; the
\* tuner is Inactive afterwards iff no subscriber remains, and otherwise the
\* session continues with the same id and the remaining subscribers.
C9_StopRemovesSubscriber ==
    [][last'.op = "StopStreaming"
       => \A h \in StopStreams :
            (/\ StopStreaming(h)
             /\ IsActive(TunerOf(h.id))
             /\ SessionOf(TunerOf(h.id)).id = h.id.session_id)
            => LET i == TunerOf(h.id)
                   rest == (DOMAIN SubscribersOf(i)) \ {h.id.serial_number}
               IN /\ last'.result = "Ok"
                  /\ \A j \in TunerIndexes : j # i => tuners'[j] = tuners[j]
                  /\ (tuners'[i].activity.kind = "Inactive") <=> (rest = {})
                  /\ rest # {}
                     => tuners'[i].activity.session =
                          [SessionOf(i) EXCEPT
                             !.subscribers =
                                [s \in rest |-> SubscribersOf(i)[s]]]
      ]_vars

\* The last message was a StopStreaming that succeeded and left the session
\* running with the subscriber that remains.
C9_Witness ==
    /\ last.op = "StopStreaming"
    /\ last.result = "Ok"
    /\ IsActive(last.index)
    /\ Cardinality(DOMAIN SubscribersOf(last.index)) = 1
    /\ SessionOf(last.index).next_serial_number = 3

\* C10: once the session that issued a subscription id has been dropped,
\* every later stop_streaming with that id is rejected with SessionNotFound
\* and changes no tuner: it removes no subscriber from, and does not
\* deactivate, a later session of the same tuner.
C10_EndedSubscriptionStaysInvalid ==
    [][last'.op = "StopStreaming"
       => \A h \in held :
            (StopStreaming(h) /\ h.ended)
            => /\ last'.result = "SessionNotFound"
               /\ tuners' = tuners
      ]_vars

\* The sessions' serial counters are consistent: every key of a subscriber
\* map is a serial already handed out, and no live stream of a session
\* carries a serial the session has yet to hand out.
SerialsBelowNext ==
    /\ \A i \in TunerIndexes :
          IsActive(i)
          => /\ SessionOf(i).next_serial_number >= 1
             /\ \A s \in DOMAIN SubscribersOf(i) :
                   1 <= s /\ s < SessionOf(i).next_serial_number
    /\ \A x \in pending \cup held :
          (/\ ~x.ended
           /\ IsActive(TunerOf(x.id))
           /\ SessionOf(TunerOf(x.id)).id = x.id.session_id)
          => x.id.serial_number < SessionOf(TunerOf(x.id)).next_serial_number

\* stop_streaming leaves the serial counter of a session it keeps alone.
StopKeepsNextSerial ==
    \A h \in StopStreams :
       \A r \in {stop_streaming(tuners, h.id)} :
          \A i \in TunerIndexes :
             (IsActive(i) /\ r.tuners[i].activity.kind = "Active")
             => r.tuners[i].activity.session.next_serial_number
                   = SessionOf(i).next_serial_number

\* C11 (subscription serials): a new session hands out serial 1; a session
\* subscribed to again hands out its next_serial_number, which is no key of
\* its subscriber map, and counts one up; every key of a subscriber map is
\* below next_serial_number, and stop_streaming never lowers the counter, so
\* a serial is not handed out twice in a session even after its subscriber
\* was removed.
C11_Holds(channel_type, channel, user, r) ==
    r.result = "Ok"
    => LET n == r.tuners[r.index].activity.session IN
       IF r.path \in {"free", "grab"}
       THEN /\ r.id.serial_number = 1
            /\ n.next_serial_number = 2
            /\ DOMAIN n.subscribers = {1}
       ELSE /\ r.id.serial_number = SessionOf(r.index).next_serial_number
            /\ r.id.serial_number \notin DOMAIN SubscribersOf(r.index)
            /\ n.next_serial_number = r.id.serial_number + 1
            /\ DOMAIN n.subscribers =
                  DOMAIN SubscribersOf(r.index) \cup {r.id.serial_number}
C11_SerialsIncrease ==
    /\ SerialsBelowNext
    /\ StopKeepsNextSerial
    /\ EveryStart(C11_Holds)

\* A session was subscribed to after its first subscriber had been removed:
\* the last request reused the session, which has handed out serials 1..3
\* and no longer has subscriber 1.
C11_Witness ==
    /\ last.op = "reuse"
    /\ last.result = "Ok"
    /\ SessionOf(last.index).next_serial_number = 4
    /\ 1 \notin DOMAIN SubscribersOf(last.index)
    /\ 3 \in DOMAIN SubscribersOf(last.index)

\* The failures of Tuner::activate before a child process exists.
NoChildFailures == {"RenderFailed", "UnableToParse", "UnableToSpawn"}

\* C12, at the calls the manager makes: when Tuner::activate fails to render
\* or parse the command or to spawn the process, the request returns that
\* error, the selected tuner is Inactive and no process was spawned.
C12_Holds(channel_type, channel, user, r) ==
    (r.path \in {"free", "grab"} /\ r.result \in NoChildFailures)
    => /\ r.tuners[r.index].activity.kind = "Inactive"
       /\ r.spawned = {}
       /\ r.id = DefaultId
       /\ DropKills(tuners[r.index].activity) \cap
             ((children \ r.killed) \cup r.spawned) = {}

\* C12 (activation is fail-closed): Tuner::activate on an Inactive tuner
\* returns the error and leaves the tuner Inactive, with no child spawned,
\* when rendering, parsing or spawning fails; and a tuner that has been
\* deactivated is activated again by a successful Tuner::activate, on the
\* channel then asked for, whatever channel its session had before.
C12_ActivationFailsClosed ==
    /\ EveryStart(C12_Holds)
    /\ \A i \in TunerIndexes, channel_type \in ChannelTypes,
          channel \in Channels, outcome \in ActivateOutcomes, pid \in Pids :
          \A r \in {tuner_activate(tuner_deactivate(tuners[i]),
                                   channel_type, channel, outcome, pid)} :
             /\ outcome \in NoChildFailures
                => /\ r.result = outcome
                   /\ r.tuner.activity.kind = "Inactive"
                   /\ r.spawned = {}
             /\ outcome = "Ok"
                => /\ r.result = "Ok"
                   /\ r.tuner.activity =
                         Active(NewSession(i, channel_type, channel, pid))
                   /\ r.spawned = {pid}

\* A tuner that had a session before was selected as the free tuner, the
\* process could not be spawned, and the tuner is Inactive with no child
\* process running anywhere.
C12_Witness ==
    /\ last.op = "free"
    /\ last.result = "UnableToSpawn"
    /\ IsInactive(last.index)
    /\ children = {}
    /\ \E h \in held : h.ended /\ TunerOf(h.id) = last.index

\* C13 (rollback on subscriber-send error): when the send of Subscribe{id}
\* fails, the request returns the error, the stream is not delivered, and
\* the tuner named by the subscription is Inactive afterwards, the process
\* of the session it had killed.
C13_RollbackDeactivates ==
    [][last'.op = "SubscribeReply"
       => \A p \in pending :
            SubscribeFailed(p)
            => /\ last'.result = "MailboxError"
               /\ tuners'[TunerOf(p.id)].activity.kind = "Inactive"
               /\ DropKills(tuners[TunerOf(p.id)].activity) \cap children' = {}
               /\ \A x \in pending' \cup held' : x.id # p.id \/ x.ended
      ]_vars

\* The send of Subscribe has just failed for the only stream there was: the
\* tuner is Inactive again and no child process is left.
C13_Witness ==
    /\ last.op = "SubscribeReply"
    /\ last.result = "MailboxError"
    /\ IsInactive(last.index)
    /\ children = {}
    /\ pending = {}
    /\ held = {}

\* ===================================================================== EPG
\* The EPG data of src/src/epg.rs: EIT sections and events, the schedule of
\* a service (tables, segments, sections, overnight events) and the
\* operations on it.

\* ------------------------------------------------------------------ bounds

\* EpgSegment on its own: section_number and segment_last_section_number
\* (u8 in the code) are drawn from 0 .. MaxSectionNumber.
MaxSectionNumber == 9

\* --------------------------------------------------------------- constants

\* tables: [Option<Box<EpgTable>>; 32]
NumTables == 32
\* segments: [EpgSegment; 32]
NumSegments == 32
\* sections: [Option<EpgSection>; 8]
NumSections == 8
\* table_id of tables[0] (0x50)
FirstTableId == 80
\* One day in seconds: date().succ().and_hms(0, 0, 0) - date().and_hms(0, 0, 0)
Day == 86400

\* ------------------------------------------------------------ value types

\* Option<T>
None == [kind |-> "None"]
Some(x) == [kind |-> "Some", value |-> x]

\* ServiceTriple and EventQuad
ServiceTriple(nid, tsid, sid) == [nid |-> nid, tsid |-> tsid, sid |-> sid]
EventQuad(triple, event_id) == [triple |-> triple, event_id |-> event_id]

\* struct EitEvent; times are seconds, durations seconds.  The descriptors
\* play no part in what is modelled and are left empty.
EitEvent(event_id, start_time, duration, scrambled) ==
    [event_id |-> event_id, start_time |-> start_time,
     duration |-> duration, scrambled |-> scrambled, descriptors |-> <<>>]

end_time(event) == event.start_time + event.duration

\* Mutant: an event that ends at the midnight counts as well.
is_overnight_event_inclusive(event, midnight) ==
    event.start_time < midnight /\ end_time(event) >= midnight

is_overnight_event(event, midnight) ==
    event.start_time < midnight /\ end_time(event) > midnight

\* struct EitSection
EitSection(triple, table_id, section_number, last_section_number, segment_last_section_number, version_number, events) ==
    [original_network_id |-> triple.nid,
     transport_stream_id |-> triple.tsid,
     service_id |-> triple.sid,
     table_id |-> table_id,
     section_number |-> section_number,
     last_section_number |-> last_section_number,
     segment_last_section_number |-> segment_last_section_number,
     version_number |-> version_number,
     events |-> events]

table_index(section) == section.table_id - FirstTableId
segment_index(section) == section.section_number \div 8
section_index(section) == section.section_number % 8
last_section_index(section) == section.segment_last_section_number % 8
service_triple(section) ==
    ServiceTriple(section.original_network_id, section.transport_stream_id,
                  section.service_id)

\* impl From<EitSection> for EpgSection
EpgSection(section) ==
    [version |-> section.version_number, events |-> section.events]

\* The accumulators of the folds below stand for `&mut` arguments, which
\* have their value before the next call is made: Strict(acc, e) is e,
\* evaluated once acc has been.
Strict(acc, e) == IF acc = acc THEN e ELSE e

\* ------------------------------------------------------------- EpgSection

\* EpgSection::collect_overnight_events: the overnight events of the
\* section are pushed, in order, onto `events`.
epg_section_collect_overnight_events(section, midnight, events) ==
    events \o SelectSeq(section.events,
                        LAMBDA e : is_overnight_event(e, midnight))

\* ------------------------------------------------------------- EpgSegment

\* EpgSegment::default()
EpgSegmentDefault == [sections |-> [i \in 0 .. NumSections - 1 |-> None]]

\* Mutant: the section is stored only at a slot up to last_section_index.
epg_segment_update_in_range(seg, section) ==
    LET n == last_section_index(section) + 1
        cleared == [i \in 0 .. NumSections - 1 |->
                      IF i >= n THEN None ELSE seg.sections[i]]
    IN [sections |-> IF section_index(section) < n
                     THEN [cleared EXCEPT ![section_index(section)] =
                                              Some(EpgSection(section))]
                     ELSE cleared]

\* EpgSegment::update: the slots after last_section_index are cleared, then
\* the section is stored at section_index.
epg_segment_update(seg, section) ==
    LET n == last_section_index(section) + 1
        cleared == [i \in 0 .. NumSections - 1 |->
                      IF i >= n THEN None ELSE seg.sections[i]]
    IN [sections |-> [cleared EXCEPT
                        ![section_index(section)] = Some(EpgSection(section))]]

\* EpgSegment::collect_overnight_events: a fold over the stored sections in
\* slot order, from slot i on.
RECURSIVE epg_segment_collect_from(_, _, _, _)
epg_segment_collect_from(seg, i, midnight, events) ==
    IF i >= NumSections THEN events
    ELSE LET pushed == IF seg.sections[i].kind = "Some"
                       THEN epg_section_collect_overnight_events(
                                seg.sections[i].value, midnight, events)
                       ELSE events
         IN Strict(pushed,
                   epg_segment_collect_from(seg, i + 1, midnight, pushed))

epg_segment_collect_overnight_events(seg, midnight, events) ==
    epg_segment_collect_from(seg, 0, midnight, events)

\* --------------------------------------------------------------- EpgTable

\* EpgTable::default()
EpgTableDefault ==
    [segments |-> [j \in 0 .. NumSegments - 1 |-> EpgSegmentDefault]]

\* Mutant: the segments the section is not of are reset.
epg_table_update_fresh(table, section) ==
    [segments |-> [EpgTableDefault.segments EXCEPT
                     ![segment_index(section)] =
                         epg_segment_update(
                            table.segments[segment_index(section)], section)]]

\* EpgTable::update
epg_table_update(table, section) ==
    [segments |-> [table.segments EXCEPT
                     ![segment_index(section)] =
                         epg_segment_update(@, section)]]

\* EpgTable::collect_overnight_events: segment by segment, from segment j on.
RECURSIVE epg_table_collect_from(_, _, _, _)
epg_table_collect_from(table, j, midnight, events) ==
    IF j >= NumSegments THEN events
    ELSE LET pushed == epg_segment_collect_overnight_events(
                           table.segments[j], midnight, events)
         IN Strict(pushed,
                   epg_table_collect_from(table, j + 1, midnight, pushed))

epg_table_collect_overnight_events(table, midnight, events) ==
    epg_table_collect_from(table, 0, midnight, events)

\* ------------------------------------------------------------ EpgSchedule

\* EpgSchedule::new; `now` is the Jst::now() it reads.
EpgScheduleNew(triple, now) ==
    [service_triple |-> triple,
     tables |-> [i \in 0 .. NumTables - 1 |-> None],
     overnight_events |-> <<>>,
     updated_at |-> now]

\* EpgSchedule::update: the table is allocated on demand.
epg_schedule_update(s, section) ==
    LET i == table_index(section)
        table == IF s.tables[i].kind = "None" THEN EpgTableDefault
                 ELSE s.tables[i].value
    IN [s EXCEPT !.tables[i] = Some(epg_table_update(table, section))]

\* The loop of EpgSchedule::save_overnight_events, from table i on.
RECURSIVE epg_schedule_collect_from(_, _, _, _)
epg_schedule_collect_from(s, i, midnight, events) ==
    IF i >= NumTables THEN events
    ELSE LET pushed == IF s.tables[i].kind = "Some"
                       THEN epg_table_collect_overnight_events(
                                s.tables[i].value, midnight, events)
                       ELSE events
         IN Strict(pushed,
                   epg_schedule_collect_from(s, i + 1, midnight, pushed))

\* Mutant: the events collected are added to the overnight events there are.
epg_schedule_save_overnight_events_appends(s, midnight) ==
    [s EXCEPT !.overnight_events =
        epg_schedule_collect_from(s, 0, midnight, @)]

\* EpgSchedule::save_overnight_events
epg_schedule_save_overnight_events(s, midnight) ==
    [s EXCEPT !.overnight_events =
        epg_schedule_collect_from(s, 0, midnight, <<>>)]

\* ------------------------------------------------- collect_epg_programs

\* MirakurunProgramId::new(quad): the id is made of the quad.
MirakurunProgramId(quad) == quad

\* ProgramModel::new(quad): the fields ProgramModel::update sets from the
\* event itself are kept; those it sets from descriptors are left out.
ProgramModelNew(quad) ==
    [event_quad |-> quad, start_at |-> 0, duration |-> 0, is_free |-> FALSE]

\* ProgramModel::update
program_model_update(program, event) ==
    [program EXCEPT !.start_at = event.start_time,
                    !.duration = event.duration,
                    !.is_free = ~event.scrambled]

\* programs.entry(id).or_insert(ProgramModel::new(quad)).update(event)
program_entry_update(programs, triple, event) ==
    LET quad == EventQuad(triple, event.event_id)
        id == MirakurunProgramId(quad)
        program == IF id \in DOMAIN programs THEN programs[id]
                   ELSE ProgramModelNew(quad)
    IN MapInsert(programs, id, program_model_update(program, event))

\* `for event in events.iter()`, from the n-th event on.
RECURSIVE collect_events_from(_, _, _, _)
collect_events_from(events, n, triple, programs) ==
    IF n > Len(events) THEN programs
    ELSE LET updated == program_entry_update(programs, triple, events[n])
         IN Strict(updated,
                   collect_events_from(events, n + 1, triple, updated))

\* EpgSection::collect_epg_programs
epg_section_collect_epg_programs(section, triple, programs) ==
    collect_events_from(section.events, 1, triple, programs)

\* EpgSegment::collect_epg_programs, from slot i on.
RECURSIVE epg_segment_programs_from(_, _, _, _)
epg_segment_programs_from(seg, i, triple, programs) ==
    IF i >= NumSections THEN programs
    ELSE LET updated == IF seg.sections[i].kind = "Some"
                        THEN epg_section_collect_epg_programs(
                                 seg.sections[i].value, triple, programs)
                        ELSE programs
         IN Strict(updated,
                   epg_segment_programs_from(seg, i + 1, triple, updated))

epg_segment_collect_epg_programs(seg, triple, programs) ==
    epg_segment_programs_from(seg, 0, triple, programs)

\* EpgTable::collect_epg_programs, from segment j on.
RECURSIVE epg_table_programs_from(_, _, _, _)
epg_table_programs_from(table, j, triple, programs) ==
    IF j >= NumSegments THEN programs
    ELSE LET updated == epg_segment_collect_epg_programs(
                            table.segments[j], triple, programs)
         IN Strict(updated,
                   epg_table_programs_from(table, j + 1, triple, updated))

epg_table_collect_epg_programs(table, triple, programs) ==
    epg_table_programs_from(table, 0, triple, programs)

\* The second loop of EpgSchedule::collect_epg_programs, from table i on.
RECURSIVE epg_schedule_programs_from(_, _, _, _)
epg_schedule_programs_from(s, i, triple, programs) ==
    IF i >= NumTables THEN programs
    ELSE LET updated == IF s.tables[i].kind = "Some"
                        THEN epg_table_collect_epg_programs(
                                 s.tables[i].value, triple, programs)
                        ELSE programs
         IN Strict(updated,
                   epg_schedule_programs_from(s, i + 1, triple, updated))

\* Mutant: the overnight events are not collected.
epg_schedule_collect_epg_programs_tables_only(s, triple, programs) ==
    epg_schedule_programs_from(s, 0, triple, programs)

\* Mutant: the tables first, then the overnight events.
epg_schedule_collect_epg_programs_overnight_last(s, triple, programs) ==
    LET stored == epg_schedule_programs_from(s, 0, triple, programs)
    IN Strict(stored,
              collect_events_from(s.overnight_events, 1, triple, stored))

\* EpgSchedule::collect_epg_programs: the overnight events first, then the
\* tables.
epg_schedule_collect_epg_programs(s, triple, programs) ==
    LET overnight == collect_events_from(s.overnight_events, 1, triple,
                                         programs)
    IN Strict(overnight, epg_schedule_programs_from(s, 0, triple, overnight))

\* --------------------------------------------- EpgSegment, on its own

\* The tuner manager is left out of the specifications of the EPG.
TunerParked ==
    /\ tuners = Parked /\ children = Parked /\ pending = Parked
    /\ held = Parked /\ stopped = Parked /\ last = Parked

\* The service the sections of a single schedule belong to.
TheTriple == ServiceTriple(1, 2, 3)

\* The sections EpgSegment::update is called with: every pair of
\* section_number and segment_last_section_number in bounds (table 0x50,
\* last_section_number 0xF8 and version 1 as in tests::test_epg_segment_update).
SegmentSections ==
    {EitSection(TheTriple, FirstTableId, n, 248, l, 1, <<>>) :
        n \in 0 .. MaxSectionNumber, l \in 0 .. MaxSectionNumber}

SegmentInit ==
    /\ segment = EpgSegmentDefault
    /\ section_in = None
    /\ TunerParked /\ SchedParked /\ EpgParked
    /\ EventParked /\ TaskParked

\* segment.update(section)
SegmentUpdate(section) ==
    /\ segment' = epg_segment_update(segment, section)
    /\ section_in' = Some(section)
    /\ UNCHANGED <<tuner_vars, sched_vars, epg_vars, event_vars, task_vars>>

SegmentNext == \E section \in SegmentSections : SegmentUpdate(section)

SegmentSpec == SegmentInit /\ [][SegmentNext]_vars

\* C14 (segment truncation): after EpgSegment::update with a section whose
\* last_section_index is L, every slot i with L < i < 8 is None.
C14_SegmentTruncation ==
    section_in.kind = "Some"
    => \A i \in 0 .. NumSections - 1 :
          last_section_index(section_in.value) < i
          => segment.sections[i] = None

\* -------------------------------------------- EpgSchedule, on its own

\* The midnights a snapshot is taken at are Day, 2 * Day, .. MaxDay * Day.
MaxDay == 2
Midnights == {d * Day : d \in 1 .. MaxDay}

\* Events of the schedule, after tests::test_eit_event_is_overnight_event:
\*   EvCrossing   23:30 to 00:30 over the first midnight: overnight
\*   EvEnding     23:00 to 00:00: ends at the first midnight, not overnight
\*   EvMorning    the event id of EvCrossing again, scrambled, at 00:10
\*   EvLate       23:59:59 for 2 s over the second midnight: overnight
EvCrossing == EitEvent(1, Day - 1800, 3600, FALSE)
EvEnding == EitEvent(2, Day - 3600, 3600, FALSE)
EvMorning == EitEvent(1, Day + 600, 1800, TRUE)
EvLate == EitEvent(3, 2 * Day - 1, 2, FALSE)
SchedEvents == {EvCrossing, EvEnding, EvMorning, EvLate}
SchedEventLists == {<<>>, <<EvEnding, EvCrossing>>, <<EvMorning>>, <<EvLate>>}

\* The sections the schedule is updated with: tables 0x50 and 0x51, the
\* first two sections of segment 0.
SchedSections ==
    {EitSection(TheTriple, FirstTableId + i, n, 248, l, 1, events) :
        i \in 0 .. 1, n \in 0 .. 1, l \in 0 .. 1, events \in SchedEventLists}

\* The last operation on the schedule: which, the midnight it was given
\* (save) and the section it was given (update).
SchedLast(op, midnight) == [op |-> op, midnight |-> midnight, section |-> None]

\* The slots of the schedule's tables that hold a section, and the section
\* in such a slot.
StoredAt(s) ==
    {p \in {i \in 0 .. NumTables - 1 : s.tables[i].kind = "Some"}
            \X (0 .. NumSegments - 1) \X (0 .. NumSections - 1) :
        s.tables[p[1]].value.segments[p[2]].sections[p[3]].kind = "Some"}
SectionAt(s, p) == s.tables[p[1]].value.segments[p[2]].sections[p[3]].value

\* The stored occurrences of an event: the places <<slot, n>> where it is
\* the n-th event of a stored section.
OccurrencesOf(s, e) ==
    UNION {{<<p, n>> : n \in {m \in 1 .. Len(SectionAt(s, p).events) :
                                 SectionAt(s, p).events[m] = e}} :
           p \in StoredAt(s)}

\* How often a value occurs in a sequence.
CountIn(q, e) == Cardinality({n \in 1 .. Len(q) : q[n] = e})

\* The events stored in the tables that are overnight for a midnight.
OvernightStored(s, midnight) ==
    {e \in SchedEvents :
        OccurrencesOf(s, e) # {} /\ e.start_time < midnight
                                /\ e.start_time + e.duration > midnight}

SchedInit ==
    /\ sched = EpgScheduleNew(TheTriple, 0)
    /\ sched_last = SchedLast("new", 0)
    /\ snap = {}
    /\ TunerParked /\ SegmentParked /\ EpgParked
    /\ EventParked /\ TaskParked

\* sched.update(section)
SchedUpdate(section) ==
    /\ sched' = epg_schedule_update(sched, section)
    /\ sched_last' = SchedLast("update", 0)
    /\ UNCHANGED <<snap, tuner_vars, segment_vars, epg_vars, event_vars,
                   task_vars>>

\* sched.save_overnight_events(midnight)
SchedSaveOvernightEvents(midnight) ==
    /\ sched' = epg_schedule_save_overnight_events(sched, midnight)
    /\ sched_last' = SchedLast("save", midnight)
    /\ snap' = OvernightStored(sched, midnight)
    /\ UNCHANGED <<tuner_vars, segment_vars, epg_vars, event_vars, task_vars>>

SchedNext ==
    \/ \E section \in SchedSections : SchedUpdate(section)
    \/ \E midnight \in Midnights : SchedSaveOvernightEvents(midnight)

SchedSpec == SchedInit /\ [][SchedNext]_vars

\* C15: save_overnight_events(M) replaces overnight_events wholesale: after
\* it overnight_events holds, once per stored occurrence, the events of the
\* tables with start < M and end > M and nothing else, whatever it held
\* before, and the tables are unchanged.
C15_SaveReplacesOvernight ==
    [][sched_last'.op = "save"
       => LET M == sched_last'.midnight IN
          /\ sched'.tables = sched.tables
          /\ \A n \in 1 .. Len(sched'.overnight_events) :
                sched'.overnight_events[n] \in OvernightStored(sched, M)
          /\ \A e \in SchedEvents :
                CountIn(sched'.overnight_events, e) =
                   IF e \in OvernightStored(sched, M)
                   THEN Cardinality(OccurrencesOf(sched, e))
                   ELSE 0
      ]_vars

\* A snapshot at the second midnight has just replaced the overnight events:
\* it holds EvLate, stored twice, and not EvCrossing, which the tables also
\* hold and which is overnight for the first midnight only.
C15_Witness ==
    /\ sched_last = SchedLast("save", 2 * Day)
    /\ sched.overnight_events = <<EvLate, EvLate>>
    /\ OccurrencesOf(sched, EvCrossing) # {}

\* The programs collect_epg_programs emits for the schedule.
ProgramsOf(s) ==
    epg_schedule_collect_epg_programs(s, s.service_triple, EmptyMap)

\* C16 (overnight preservation): an event that was stored in the tables and
\* overnight for M when save_overnight_events(M) ran has a program for its
\* EventQuad in what collect_epg_programs emits, after any updates of the
\* schedule since, also when no section holds the event any longer.
C16_OvernightPreserved ==
    \A e \in snap :
       LET quad == EventQuad(sched.service_triple, e.event_id) IN
       /\ MirakurunProgramId(quad) \in DOMAIN ProgramsOf(sched)
       /\ ProgramsOf(sched)[MirakurunProgramId(quad)].event_quad = quad

\* The sections that held EvCrossing at the snapshot have been overwritten
\* or truncated: no stored section holds an event with its id, and its
\* program is still emitted.
C16_Witness ==
    /\ sched_last.op = "update"
    /\ EvCrossing \in snap
    /\ \A e \in SchedEvents :
          e.event_id = EvCrossing.event_id => OccurrencesOf(sched, e) = {}
    /\ StoredAt(sched) # {}
    /\ MirakurunProgramId(EventQuad(TheTriple, EvCrossing.event_id))
          \in DOMAIN ProgramsOf(sched)

\* ------------------------------------------------------------ Epg actor

\* Durations of the source, in seconds.
EstimateMargin == 30
EstimateDefault == 3600
PostponeMargin == 10
StartDelay == 10
RetryAfterDone == 900
RetryAfterFailure == 300

\* The instants the clock is read at after the start: on each of the days
\* 0 .. MaxDay, the instant a run postponed on the day before is due, and the
\* last instants at which a run is admitted and the first at which it is
\* not, for the default estimate and for a max_elapsed of zero.
Offsets ==
    {PostponeMargin,
     Day - EstimateDefault, Day - EstimateDefault + 1,
     Day - EstimateMargin, Day - EstimateMargin + 1}
Instants == {d * Day + o : d \in 0 .. MaxDay, o \in Offsets}

\* The services there are; they are on networks of their own.  A scan
\* finds none of them, the first, or both.
OtherTriple == ServiceTriple(4, 5, 6)
Triples == {TheTriple, OtherTriple}
ServiceLists == {{}, {TheTriple}, Triples}

\* now.date().and_hms(0, 0, 0) and now.date().succ().and_hms(0, 0, 0)
midnight_of(now) == (now \div Day) * Day
next_midnight_of(now) == midnight_of(now) + Day

\* Epg::estimate_time
estimate_time(max) ==
    IF max.kind = "Some" THEN max.value + EstimateMargin ELSE EstimateDefault

\* Mutant: a run is never postponed.
update_schedules_postpones_never(now, max) == FALSE

\* `remaining < self.estimate_time()` of Epg::update_schedules
update_schedules_postpones(now, max) ==
    next_midnight_of(now) - now < estimate_time(max)

\* Mutant: the elapsed time of the last run is recorded.
update_max_elapsed_last(max, elapsed) == Some(elapsed)

\* Epg::update_max_elapsed
update_max_elapsed(max, elapsed) ==
    IF max.kind = "Some" /\ elapsed <= max.value THEN max ELSE Some(elapsed)

\* Mutant: the snapshot is taken whenever the schedules are prepared.
prepare_schedule_always(s, timestamp) ==
    [epg_schedule_save_overnight_events(s, midnight_of(timestamp))
        EXCEPT !.updated_at = timestamp]

\* The and_modify closure of Epg::prepare_schedules: what it does to the
\* schedule there is for a service.
prepare_schedule(s, timestamp) ==
    LET midnight == midnight_of(timestamp)
        saved == IF s.updated_at < midnight
                 THEN epg_schedule_save_overnight_events(s, midnight)
                 ELSE s
    IN [saved EXCEPT !.updated_at = timestamp]

\* Mutant: the schedules of the services no longer listed are kept.
prepare_schedules_keeps_garbage(scheds, svcs, timestamp, now) ==
    [t \in svcs \cup DOMAIN scheds |->
        IF t \in DOMAIN scheds
        THEN IF t \in svcs THEN prepare_schedule(scheds[t], timestamp)
             ELSE scheds[t]
        ELSE EpgScheduleNew(t, now)]

\* Epg::prepare_schedules; `svcs` are the triples of self.services and `now`
\* is the Jst::now() EpgSchedule::new reads.
prepare_schedules(scheds, svcs, timestamp, now) ==
    [t \in svcs |->
        IF t \in DOMAIN scheds THEN prepare_schedule(scheds[t], timestamp)
        ELSE EpgScheduleNew(t, now)]

\* Epg::collect_channels_for_collecting_programs: a channel per network id.
collect_channels_for_collecting_programs(svcs) == {t.nid : t \in svcs}

\* A line of the output of the collect-eits command: an EIT section in JSON,
\* or something serde_json does not parse as one.
Garbage == [garbage |-> TRUE]
SectionLine(triple, events) ==
    EitSection(triple, FirstTableId, 0, 248, 0, 1, events)
Lines ==
    {SectionLine(TheTriple, <<EvCrossing>>), SectionLine(TheTriple, <<EvLate>>),
     SectionLine(OtherTriple, <<>>), Garbage}
MaxLines == 2
LineSeqs == UNION {[1 .. n -> Lines] : n \in 0 .. MaxLines}

\* Mutant: a schedule is made for a section of a service that has none.
update_table_or_insert(scheds, section) ==
    LET triple == service_triple(section)
        s == IF triple \in DOMAIN scheds THEN scheds[triple]
             ELSE EpgScheduleNew(triple, 0)
    IN MapInsert(scheds, triple, epg_schedule_update(s, section))

\* self.schedules.entry(triple).and_modify(|sched| sched.update(section))
update_table(scheds, section) ==
    LET triple == service_triple(section)
    IN IF triple \in DOMAIN scheds
       THEN [scheds EXCEPT ![triple] = epg_schedule_update(@, section)]
       ELSE scheds

\* Epg::update_tables from the n-th line on: the schedules it leaves and
\* what it returns.  A line that does not parse ends it with an error, the
\* lines before having been applied.
RECURSIVE update_tables_from(_, _, _)
update_tables_from(scheds, lines, n) ==
    IF n > Len(lines) THEN [schedules |-> scheds, result |-> "Ok"]
    ELSE IF lines[n] = Garbage THEN [schedules |-> scheds, result |-> "Err"]
    ELSE LET updated == update_table(scheds, lines[n])
         IN Strict(updated, update_tables_from(updated, lines, n + 1))

\* Mutant: a line that does not parse ends the reading without an error.
update_tables_lenient(scheds, lines) ==
    [update_tables_from(scheds, lines, 1) EXCEPT !.result = "Ok"]

update_tables(scheds, lines) == update_tables_from(scheds, lines, 1)

\* The triples of the sections update_tables reads before it returns.
RECURSIVE triples_read_from(_, _)
triples_read_from(lines, n) ==
    IF n > Len(lines) \/ lines[n] = Garbage THEN {}
    ELSE {service_triple(lines[n])} \cup triples_read_from(lines, n + 1)

\* The update_schedules run in flight, if any: the `now` it started at, the
\* channels still to do and whether the stream has failed.
SweepIdle == [phase |-> "idle", now |-> 0, channels |-> {}, result |-> "Ok"]
SweepRunning(now, channels, result) ==
    [phase |-> "running", now |-> now, channels |-> channels,
     result |-> result]

\* What a step did: the operation, whether it asked for a tuner, whether it
\* sent UpdateEpg, the schedules it took a snapshot of, the schedules it
\* removed and the triples of the sections it read; whether it called
\* save_epg_data, which only the end of a run may do; and whether it was
\* given a line that does not parse, which only update_tables may be.
EpgLast(op, opened, emitted, saved, removed, read) ==
    [op |-> op, opened |-> opened, emitted |-> emitted, saved |-> saved,
     removed |-> removed, read |-> read, wrote |-> FALSE,
     unparsed |-> FALSE]

\* Epg::new, then Actor::started with empty caches: update_schedules is to
\* run after 10 s.
EpgInit ==
    /\ clock = 0
    /\ services = {}
    /\ schedules = EmptyMap
    /\ max_elapsed = None
    /\ sweep = SweepIdle
    /\ timers = {StartDelay}
    /\ epg_last = EpgLast("started", FALSE, FALSE, {}, {}, {})
    /\ prepared = EmptyMap
    /\ TunerParked /\ SegmentParked /\ SchedParked
    /\ EventParked /\ TaskParked

NotEpg ==
    UNCHANGED <<tuner_vars, segment_vars, sched_vars, event_vars, task_vars>>

\* Time passes.
Tick(t) ==
    /\ t > clock
    /\ clock' = t
    /\ epg_last' = EpgLast("tick", FALSE, FALSE, {}, {}, {})
    /\ UNCHANGED <<services, schedules, max_elapsed, sweep, timers, prepared>>
    /\ NotEpg

\* The end of Epg::scan_services: `epg.services = services`.  The runs of the
\* actor wait for one another.
ScanServices(svcs) ==
    /\ sweep.phase = "idle"
    /\ services' = svcs
    /\ epg_last' = EpgLast("scan", TRUE, FALSE, {}, {}, {})
    /\ UNCHANGED <<clock, schedules, max_elapsed, sweep, timers, prepared>>
    /\ NotEpg

\* Epg::update_schedules up to the stream of channels, run by a timer that
\* is due.
UpdateSchedules(due) ==
    /\ sweep.phase = "idle"
    /\ due \in timers /\ due <= clock
    /\ LET now == clock
           remaining == next_midnight_of(now) - now
       IN IF update_schedules_postpones(now, max_elapsed)
          THEN /\ timers' = (timers \ {due})
                               \cup {now + remaining + PostponeMargin}
               /\ epg_last' = EpgLast("postpone", FALSE, FALSE, {}, {}, {})
               /\ UNCHANGED <<schedules, sweep, prepared>>
          ELSE /\ schedules' =
                     prepare_schedules(schedules, services, now, clock)
               /\ sweep' = SweepRunning(now,
                     collect_channels_for_collecting_programs(services), "Ok")
               /\ timers' = timers \ {due}
               /\ epg_last' = EpgLast("prepare", FALSE, FALSE,
                     {t \in services \cap DOMAIN schedules :
                         schedules[t].updated_at < midnight_of(now)},
                     DOMAIN schedules \ DOMAIN schedules', {})
               /\ prepared' = [t \in services |-> now \div Day]
    /\ UNCHANGED <<clock, services, max_elapsed>>
    /\ NotEpg

\* A channel of the stream: open_tuner, pipe to collect-eits, update_tables.
\* An error ends the stream.
SweepOutcomes == {"Ok", "OpenTunerFailed", "PipeFailed"}
SweepChannel(nid, outcome, lines) ==
    /\ sweep.phase = "running" /\ sweep.result = "Ok"
    /\ nid \in sweep.channels
    /\ IF outcome = "Ok"
       THEN LET r == update_tables(schedules, lines)
            IN /\ schedules' = r.schedules
               /\ sweep' = IF r.result = "Ok"
                           THEN [sweep EXCEPT !.channels = @ \ {nid}]
                           ELSE [sweep EXCEPT !.channels = {},
                                              !.result = "Err"]
               /\ epg_last' =
                     [EpgLast("tables", TRUE, FALSE, {}, {},
                              triples_read_from(lines, 1))
                        EXCEPT !.unparsed =
                           \E n \in 1 .. Len(lines) : lines[n] = Garbage]
       ELSE /\ sweep' = [sweep EXCEPT !.channels = {}, !.result = "Err"]
            /\ epg_last' = EpgLast("open", TRUE, FALSE, {}, {}, {})
            /\ UNCHANGED schedules
    /\ UNCHANGED <<clock, services, max_elapsed, timers, prepared>>
    /\ NotEpg

\* The end of the stream: save_epg_data and UpdateEpg when no channel
\* failed, then the next run is scheduled.
SweepFinish(saved) ==
    /\ sweep.phase = "running"
    /\ sweep.channels = {} \/ sweep.result = "Err"
    /\ LET ok == sweep.result = "Ok" /\ saved
           elapsed == clock - sweep.now
       IN /\ max_elapsed' = IF ok THEN update_max_elapsed(max_elapsed, elapsed)
                            ELSE max_elapsed
          /\ timers' = timers \cup
                {clock + IF ok THEN RetryAfterDone ELSE RetryAfterFailure}
          /\ epg_last' = [EpgLast("finish", FALSE, ok, {}, {}, {})
                              EXCEPT !.wrote = sweep.result = "Ok"]
    /\ sweep' = SweepIdle
    /\ UNCHANGED <<clock, services, schedules, prepared>>
    /\ NotEpg

EpgNext ==
    \/ \E t \in Instants : Tick(t)
    \/ \E svcs \in ServiceLists : ScanServices(svcs)
    \/ \E due \in timers : UpdateSchedules(due)
    \/ \E nid \in {t.nid : t \in Triples}, outcome \in SweepOutcomes,
          lines \in LineSeqs : SweepChannel(nid, outcome, lines)
    \/ \E saved \in BOOLEAN : SweepFinish(saved)

EpgSpec == EpgInit /\ [][EpgNext]_vars

\* The schedules prepare_schedules found, and what a schedule holds.
Stored(s) == {e \in SchedEvents : OccurrencesOf(s, e) # {}}

\* C17: prepare_schedules takes the overnight snapshot at most once per day
\* per schedule.  For a schedule of a current service that was last prepared
\* today, overnight_events are left as they are; for one last prepared on an
\* earlier day, they are replaced with the snapshot for today's midnight;
\* in both cases updated_at becomes now and the tables are kept.
C17_SnapshotOncePerDay ==
    [][epg_last'.op = "prepare"
       => \A t \in services \cap DOMAIN schedules :
             LET today == clock \div Day
                 before == schedules[t]
                 after == schedules'[t]
             IN /\ prepared[t] <= today
                /\ prepared[t] = today
                   => /\ after.overnight_events = before.overnight_events
                      /\ t \notin epg_last'.saved
                /\ prepared[t] < today
                   => /\ \A n \in 1 .. Len(after.overnight_events) :
                            after.overnight_events[n]
                               \in OvernightStored(before, today * Day)
                      /\ \A e \in OvernightStored(before, today * Day) :
                            CountIn(after.overnight_events, e) =
                               Cardinality(OccurrencesOf(before, e))
                      /\ t \in epg_last'.saved
                /\ after.updated_at = clock
                /\ after.tables = before.tables
      ]_vars

\* The schedules have been prepared a second time on a day: the schedule of
\* TheTriple keeps the snapshot of the first time, EvCrossing, though its
\* tables hold another event by now.
C17_Witness ==
    /\ epg_last.op = "prepare"
    /\ TheTriple \in DOMAIN schedules
    /\ TheTriple \notin epg_last.saved
    /\ schedules[TheTriple].overnight_events = <<EvCrossing>>
    /\ Stored(schedules[TheTriple]) = {EvLate}

\* C18: after prepare_schedules the keys of the schedules are the triples of
\* the services: a schedule with no table and no overnight event is made
\* for a service without one, the schedule of a service still listed keeps
\* its tables, and the schedules of the other triples are removed.
C18_KeysAreServices ==
    [][epg_last'.op = "prepare"
       => /\ DOMAIN schedules' = services
          /\ epg_last'.removed = DOMAIN schedules \ services
          /\ \A t \in services :
                IF t \in DOMAIN schedules
                THEN schedules'[t].tables = schedules[t].tables
                ELSE /\ \A i \in 0 .. NumTables - 1 :
                           schedules'[t].tables[i] = None
                     /\ schedules'[t].overnight_events = <<>>
                     /\ schedules'[t].service_triple = t
      ]_vars

\* The schedule of OtherTriple has been removed and the schedule of
\* TheTriple, which holds sections, has been kept.
C18_Witness ==
    /\ epg_last.op = "prepare"
    /\ epg_last.removed = {OtherTriple}
    /\ DOMAIN schedules = {TheTriple}
    /\ StoredAt(schedules[TheTriple]) # {}

\* C19: update_tables ignores unknown triples: whatever it reads, the keys
\* of the schedules are the same before and after, and a schedule whose
\* triple no section read names is the same before and after.
C19_UnknownTriplesIgnored ==
    [][epg_last'.op = "tables"
       => /\ DOMAIN schedules' = DOMAIN schedules
          /\ \A t \in DOMAIN schedules :
                t \notin epg_last'.read => schedules'[t] = schedules[t]
      ]_vars

\* update_tables has read a section of a service that has no schedule,
\* while another service has one.
C19_Witness ==
    /\ epg_last.op = "tables"
    /\ OtherTriple \in epg_last.read
    /\ DOMAIN schedules = {TheTriple}

\* Whether update_schedules started at `now` is admitted.
Admitted(now) == next_midnight_of(now) - now >= estimate_time(max_elapsed)

\* C20 (admission control): update_schedules prepares the schedules, asks
\* for a tuner or updates the tables only if at its start the time left
\* until the next midnight was at least estimate_time(); otherwise it
\* leaves the state of the Epg as it is, asks for no tuner, sends nothing
\* and schedules one run after remaining + 10 s in place of the one that
\* ran.
C20_AdmissionControl ==
    [][/\ epg_last'.op = "prepare" => Admitted(clock) /\ sweep'.now = clock
       /\ epg_last'.op \in {"tables", "open"}
          => Admitted(sweep.now) /\ sweep.phase = "running"
       /\ schedules' # schedules => epg_last'.op \in {"prepare", "tables"}
       /\ epg_last'.op = "postpone"
          => /\ ~Admitted(clock)
             /\ UNCHANGED <<services, schedules, max_elapsed, sweep>>
             /\ ~epg_last'.opened /\ ~epg_last'.emitted
             /\ \E due \in timers :
                   /\ due <= clock
                   /\ timers' = (timers \ {due})
                         \cup {next_midnight_of(clock) + PostponeMargin}
             /\ Cardinality(timers') = Cardinality(timers)
      ]_vars

\* A run has been postponed 29 s before midnight because the longest run
\* so far took no time, so that 30 s are estimated.
C20_Witness ==
    /\ epg_last.op = "postpone"
    /\ max_elapsed = Some(0)
    /\ next_midnight_of(clock) - clock = EstimateMargin - 1
    /\ timers = {next_midnight_of(clock) + PostponeMargin}
    /\ schedules # EmptyMap

\* C21: max_elapsed never decreases.  It starts absent, with an estimate of
\* 1 h; it changes only at the end of an update_schedules run that
\* succeeded, to the time that run took, which is then the first value
\* recorded or greater than the value before; a run that failed or was
\* postponed leaves it; and once there is a value the estimate is that
\* value + 30 s.
C21_MaxElapsedMonotone ==
    /\ max_elapsed = None /\ estimate_time(max_elapsed) = 3600
    /\ [][/\ max_elapsed' # max_elapsed
             => /\ epg_last'.op = "finish" /\ epg_last'.emitted
                /\ max_elapsed' = Some(clock - sweep.now)
                /\ max_elapsed.kind = "Some"
                   => max_elapsed'.value > max_elapsed.value
          /\ max_elapsed.kind = "Some" => max_elapsed'.kind = "Some"
          /\ epg_last'.op = "finish" /\ epg_last'.emitted
             => \/ max_elapsed' = Some(clock - sweep.now)
                \/ /\ max_elapsed' = max_elapsed
                   /\ max_elapsed.kind = "Some"
                   /\ clock - sweep.now <= max_elapsed.value
          /\ max_elapsed'.kind = "Some"
             => estimate_time(max_elapsed') = max_elapsed'.value + 30
         ]_vars

\* A run has succeeded that took less time than the longest one before:
\* max_elapsed is still that of the longest.
C21_Witness ==
    /\ epg_last.op = "finish" /\ epg_last.emitted
    /\ TheTriple \in DOMAIN schedules
    /\ max_elapsed.kind = "Some"
    /\ max_elapsed.value > clock - schedules[TheTriple].updated_at

\* The events in the overnight events of a schedule, and whether a program
\* has the start, duration and scrambled flag of an event.
OvernightOf(s) == {s.overnight_events[n] : n \in 1 .. Len(s.overnight_events)}
ProgramIsOf(program, e) ==
    /\ program.start_at = e.start_time
    /\ program.duration = e.duration
    /\ program.is_free = ~e.scrambled

\* C28 (collect tie-break): collect_epg_programs emits one program for each
\* event id among the overnight events and the stored sections and no
\* other; where a stored section has an event with the id, the program has
\* the start, duration and scrambled flag of a stored event, also when an
\* overnight event has the id too; otherwise it has those of an overnight
\* event.
C28_CollectTieBreak ==
    LET ids == {e.event_id : e \in Stored(sched) \cup OvernightOf(sched)}
        key(id) == MirakurunProgramId(EventQuad(sched.service_triple, id))
    IN /\ DOMAIN ProgramsOf(sched) = {key(id) : id \in ids}
       /\ \A id \in ids :
             LET program == ProgramsOf(sched)[key(id)]
                 stored == {e \in Stored(sched) : e.event_id = id}
                 night == {e \in OvernightOf(sched) : e.event_id = id}
             IN /\ program.event_quad = EventQuad(sched.service_triple, id)
                /\ \E e \in (IF stored # {} THEN stored ELSE night) :
                      ProgramIsOf(program, e)

\* EvCrossing is among the overnight events and EvMorning, with the same
\* event id, is the only stored event with it: the program is that of
\* EvMorning.
C28_Witness ==
    /\ EvCrossing \in OvernightOf(sched)
    /\ {e \in Stored(sched) : e.event_id = EvCrossing.event_id} = {EvMorning}
    /\ ProgramIsOf(ProgramsOf(sched)[MirakurunProgramId(
           EventQuad(TheTriple, EvCrossing.event_id))], EvMorning)

\* ------------------------------- EpgSchedule, the slots of its tables

\* Sections for the first two slots of segment 0 and the first slot of
\* segment 1, of the tables 0x50 and 0x51.
SlotNumbers == {0, 1, NumSections}
SlotSections ==
    {EitSection(TheTriple, FirstTableId + i, n, 248, l, 1, <<EvCrossing>>) :
        i \in 0 .. 1, n \in SlotNumbers, l \in SlotNumbers}

\* sched.update(section), the section kept in the record of the step.
SlotUpdate(section) ==
    /\ sched' = epg_schedule_update(sched, section)
    /\ sched_last' = [SchedLast("update", 0) EXCEPT !.section = Some(section)]
    /\ UNCHANGED <<snap, tuner_vars, segment_vars, epg_vars, event_vars,
                   task_vars>>

SlotNext ==
    \/ \E section \in SlotSections : SlotUpdate(section)
    \/ \E midnight \in Midnights : SchedSaveOvernightEvents(midnight)

SlotSpec == SchedInit /\ [][SlotNext]_vars

\* C30: in a schedule made by EpgSchedule::new and changed by update and
\* save_overnight_events, every allocated table has a stored section in
\* some segment, and a table that is allocated stays allocated.
C30_AllocatedTablesHoldSections ==
    /\ [](\A i \in 0 .. NumTables - 1 :
            sched.tables[i].kind = "Some"
            => \E p \in StoredAt(sched) : p[1] = i)
    /\ [][\A i \in 0 .. NumTables - 1 :
            sched.tables[i].kind = "Some" => sched'.tables[i].kind = "Some"
         ]_vars

\* Both tables are allocated; the second holds a single section, in slot 1,
\* stored by an update that cleared the slots above slot 0, and the first
\* holds one in segment 1 only.
C30_Witness ==
    /\ sched_last.op = "update"
    /\ StoredAt(sched) = {<<0, 1, 0>>, <<1, 0, 1>>}

\* ------------------------------ EitEvent::is_overnight_event, on its own

\* The events it is called on start up to 2 s before or 1 s after a
\* midnight and last up to MaxDuration seconds, or a day longer; the
\* midnights it is called with are those of the days 0 .. MaxDay + 1.
MaxDuration == 3
EventStarts == {d * Day + o : d \in 1 .. MaxDay, o \in -2 .. 1}
EventDurations ==
    (0 .. MaxDuration) \cup {Day + d : d \in 0 .. MaxDuration}
EventMidnights == {d * Day : d \in 0 .. MaxDay + 1}

EventInit ==
    /\ event_in = None
    /\ midnight_in = 0
    /\ overnight_out = None
    /\ TunerParked /\ SegmentParked /\ SchedParked /\ EpgParked /\ TaskParked

\* event.is_overnight_event(midnight)
IsOvernightEvent(event, midnight) ==
    /\ event_in' = Some(event)
    /\ midnight_in' = midnight
    /\ overnight_out' = Some(is_overnight_event(event, midnight))
    /\ UNCHANGED <<tuner_vars, segment_vars, sched_vars, epg_vars, task_vars>>

EventNext ==
    \E start \in EventStarts, duration \in EventDurations,
       midnight \in EventMidnights :
          IsOvernightEvent(EitEvent(0, start, duration, FALSE), midnight)

EventSpec == EventInit /\ [][EventNext]_vars

\* C29: an event is overnight for a midnight M iff start < M and
\* start + duration > M: not if it ends at M, not if it starts at M, and
\* only for the midnights strictly inside its interval.
C29_OvernightIsStrict ==
    event_in.kind = "Some"
    => LET start == event_in.value.start_time
           finish == event_in.value.start_time + event_in.value.duration
           M == midnight_in
           out == overnight_out.value
       IN /\ out <=> (start < M /\ finish > M)
          /\ finish = M => ~out
          /\ start = M => ~out
          /\ out => M \in {m \in EventMidnights : start < m /\ m < finish}

\* tests::test_eit_event_is_overnight_event: an event that starts 1 s before
\* a midnight and lasts 2 s is overnight for it.
C29_Witness ==
    /\ event_in = Some(EitEvent(0, Day - 1, 2, FALSE))
    /\ midnight_in = Day
    /\ overnight_out = Some(TRUE)

\* C26: a line of the collect-eits output that does not parse fails the
\* update_schedules run.  The step that reads it leaves no channel to do;
\* the run then does nothing but finish, and in finishing it does not call
\* save_epg_data, sends no UpdateEpg, leaves max_elapsed as it is and
\* schedules the next run in 5 min.
C26_UnparseableLineFailsRun ==
    [][/\ epg_last'.op = "tables" /\ epg_last'.unparsed
          => /\ sweep'.result = "Err"
             /\ sweep'.channels = {} /\ sweep'.phase = "running"
       /\ sweep.phase = "running" /\ sweep.result = "Err"
          /\ epg_last'.op # "tick"
          => /\ epg_last'.op = "finish"
             /\ ~epg_last'.wrote /\ ~epg_last'.emitted
             /\ max_elapsed' = max_elapsed
             /\ schedules' = schedules
             /\ timers' = timers \cup {clock + 300}
             /\ sweep'.phase = "idle"
      ]_vars

\* update_tables has applied a section of TheTriple and then met a line
\* that does not parse, in a run over the channels of two services.
C26_Witness ==
    /\ epg_last.op = "tables"
    /\ epg_last.unparsed
    /\ sweep.phase = "running" /\ sweep.result = "Err"
    /\ epg_last.read = {TheTriple}
    /\ Cardinality(DOMAIN schedules) = 2

\* ------------------------------------------- the tasks of the Epg actor

\* The tasks, and the delays the source gives them, in seconds.
Tasks == {"scan_services", "sync_clocks", "update_schedules"}
ScanStartDelay == 0
SyncStartDelay == 5
ScanAfterDone == 82800
ScanAfterFailure == 3600
SyncAfterDone == 61200
SyncAfterFailure == 3600

\* The channels of the configuration that are not disabled.
MaxChannels == 2
ChannelList == [i \in 1 .. MaxChannels |-> i]

\* The instants the clock is read at: the start, the delays of the first
\* runs, an instant after the short intervals, an instant in the last hour
\* of the day, and the instant a run postponed then is due.
TaskInstants ==
    {0, SyncStartDelay, StartDelay, ScanAfterFailure + StartDelay,
     Day - RetryAfterFailure, Day + PostponeMargin}

\* An EpgService found on a channel; a channel is a network of its own and
\* has one service.  In this specification `services` is the Vec itself.
\* The SyncClock read on a channel is written as the service it is of.
EpgService(ch) == [nid |-> ch, sid |-> 1, channel |-> ch]
CachedServices == <<EpgService(1)>>

\* Whether a cache file can be loaded.
FileStates == {"ok", "missing", "malformed"}
Caches == [services : FileStates, clocks : FileStates, schedules : FileStates]

\* A run scheduled with ctx.run_later, and a future passed to ctx.wait: the
\* task, the Jst::now() at its start, the channels not yet done, where it
\* is with the first of them, the result of the stream so far, what the
\* fold has gathered, and what each channel done so far gave.
Run(task, due) == [task |-> task, due |-> due]
Wait(task, now, todo) ==
    [task |-> task, now |-> now, todo |-> todo, stage |-> "next",
     result |-> "Ok", acc |-> <<>>, outputs |-> <<>>]

\* What a step did: the task, how it went, the runs it scheduled, the
\* UpdateEpg messages it sent, the cache files it wrote, and whether it
\* called resource_manager::update_clocks.
TaskLast(op, task, outcome, scheduled, emitted, wrote) ==
    [op |-> op, task |-> task, outcome |-> outcome, scheduled |-> scheduled,
     emitted |-> emitted, wrote |-> wrote, clocks |-> FALSE]

\* Mutant: the next run comes after the long interval whatever happened.
reschedule_after_long(task, ok) ==
    CASE task = "scan_services" -> ScanAfterDone
      [] task = "sync_clocks" -> SyncAfterDone
      [] OTHER -> RetryAfterDone

\* The duration in the final `then` of a task.
reschedule_after(task, ok) ==
    CASE task = "scan_services" ->
            IF ok THEN ScanAfterDone ELSE ScanAfterFailure
      [] task = "sync_clocks" ->
            IF ok THEN SyncAfterDone ELSE SyncAfterFailure
      [] OTHER -> IF ok THEN RetryAfterDone ELSE RetryAfterFailure

\* Mutant: output that does not parse is an error in every task.
unparseable_result_strict(task) == "Err"

\* What becomes of the stream when the output of a channel does not parse:
\* scan_services and sync_clocks go on with nothing for the channel,
\* update_tables returns the error.
unparseable_result(task) ==
    IF task = "update_schedules" THEN "Err" ELSE "Ok"

\* Mutant: what was gathered is published whether or not it was saved.
publishes_unsaved(streamed, saved) == streamed

\* Whether the and_then after the save runs (send_update_epg_message in
\* update_schedules, resource_manager::update_clocks in sync_clocks): only
\* when the stream and the save before it were Ok.
publishes(streamed, saved) == streamed /\ saved

\* Mutant: a timer runs its task also while a future is waited for.
context_polls_items_while_waiting(ws) == TRUE

\* actix's Context: the items spawned with run_later are polled only when
\* no future passed to ctx.wait is unresolved.
context_polls_items(ws) == ws = {}

\* The orders a HashMap of channels may be iterated in.
Orders(chs) ==
    {order \in UNION {[1 .. n -> chs] : n \in 0 .. MaxChannels} :
        /\ Len(order) = Cardinality(chs)
        /\ \A i, j \in 1 .. Len(order) : i # j => order[i] # order[j]}

ServicesOf(svcs) == {svcs[n] : n \in 1 .. Len(svcs)}

\* Epg::new: nothing has run yet.
TaskInit ==
    /\ clock = 0
    /\ services = <<>>
    /\ max_elapsed = None
    /\ boot = [started |-> FALSE, disabled |-> FALSE]
    /\ runs = {}
    /\ waits = {}
    /\ task_last = TaskLast("new", "none", "Ok", {}, 0, {})
    /\ schedules = Parked /\ sweep = Parked /\ timers = Parked
    /\ epg_last = Parked /\ prepared = Parked
    /\ TunerParked /\ SegmentParked /\ SchedParked /\ EventParked

NotTask ==
    UNCHANGED <<tuner_vars, segment_vars, sched_vars, event_vars, schedules,
                sweep, timers, epg_last, prepared>>

\* Actor::started; `disabled` is whether MIRAKC_DEBUG_DISABLE_EPG_TASKS is
\* set, `cache` what loading the cache files gives.
Started(disabled, cache) ==
    /\ ~boot.started
    /\ boot' = [started |-> TRUE, disabled |-> disabled]
    /\ services' = IF cache.services = "ok" THEN CachedServices ELSE <<>>
    /\ runs' = IF disabled THEN {}
               ELSE {Run("scan_services", clock + ScanStartDelay),
                     Run("sync_clocks", clock + SyncStartDelay),
                     Run("update_schedules", clock + StartDelay)}
    /\ task_last' = [TaskLast("started", "none", "Ok", runs',
                              IF cache.schedules = "ok" THEN 1 ELSE 0, {})
                        EXCEPT !.clocks = cache.clocks = "ok"]
    /\ UNCHANGED <<clock, max_elapsed, waits>>
    /\ NotTask

\* Time passes.
TaskTick(t) ==
    /\ t > clock
    /\ clock' = t
    /\ task_last' = TaskLast("tick", "none", "Ok", {}, 0, {})
    /\ UNCHANGED <<services, max_elapsed, boot, runs, waits>>
    /\ NotTask

\* A timer that is due calls its task: the part of the task before its
\* stream.  `order` is the order the channels come in.
RunTask(run, order) ==
    /\ boot.started
    /\ run \in runs /\ run.due <= clock
    /\ context_polls_items(waits)
    /\ IF run.task = "update_schedules"
       THEN /\ order \in Orders(collect_channels_for_collecting_programs(
                                    ServicesOf(services)))
            /\ IF update_schedules_postpones(clock, max_elapsed)
               THEN /\ runs' = (runs \ {run}) \cup
                         {Run(run.task,
                              next_midnight_of(clock) + PostponeMargin)}
                    /\ task_last' = TaskLast("postpone", run.task, "Ok",
                                             runs' \ runs, 0, {})
                    /\ UNCHANGED waits
               ELSE /\ runs' = runs \ {run}
                    /\ waits' = waits \cup {Wait(run.task, clock, order)}
                    /\ task_last' = TaskLast("run", run.task, "Ok", {}, 0, {})
       ELSE /\ order = ChannelList
            /\ runs' = runs \ {run}
            /\ waits' = waits \cup {Wait(run.task, clock, order)}
            /\ task_last' = TaskLast("run", run.task, "Ok", {}, 0, {})
    /\ UNCHANGED <<clock, services, max_elapsed, boot>>
    /\ NotTask

\* The stream takes its next channel and asks the resource manager for a
\* tuner.
OpenTuner(w) ==
    /\ w \in waits
    /\ w.stage = "next" /\ w.result = "Ok" /\ w.todo # <<>>
    /\ waits' = (waits \ {w}) \cup {[w EXCEPT !.stage = "opening"]}
    /\ task_last' = TaskLast("open", w.task, "Ok", {}, 0, {})
    /\ UNCHANGED <<clock, services, max_elapsed, boot, runs>>
    /\ NotTask

\* The reply of the resource manager, and the pipe to the command of the
\* task: an error ends the stream.
ReplyOutcomes == {"Ok", "OpenTunerFailed", "PipeFailed"}
Reply(w, outcome) ==
    /\ w \in waits
    /\ w.stage = "opening"
    /\ waits' = (waits \ {w}) \cup
          {IF outcome = "Ok" THEN [w EXCEPT !.stage = "reading"]
           ELSE [w EXCEPT !.stage = "failed", !.result = "Err"]}
    /\ task_last' = TaskLast("reply", w.task, outcome, {}, 0, {})
    /\ UNCHANGED <<clock, services, max_elapsed, boot, runs>>
    /\ NotTask

\* The output of the command is read and the tuner and the command are
\* dropped.
ReadOutcomes == {"Parsed", "Unparseable"}
Read(w, outcome) ==
    /\ w \in waits
    /\ w.stage = "reading"
    /\ LET ch == Head(w.todo)
           found == IF w.task = "update_schedules" THEN <<>>
                    ELSE <<EpgService(ch)>>
           done == [w EXCEPT !.todo = Tail(@), !.stage = "next",
                             !.outputs = Append(@,
                                IF outcome = "Parsed" THEN Some(found)
                                ELSE None)]
       IN waits' = (waits \ {w}) \cup
             {IF outcome = "Parsed" THEN [done EXCEPT !.acc = @ \o found]
              ELSE IF unparseable_result(w.task) = "Ok" THEN done
              ELSE [done EXCEPT !.stage = "failed", !.result = "Err"]}
    /\ task_last' = TaskLast("read", w.task, outcome, {}, 0, {})
    /\ UNCHANGED <<clock, services, max_elapsed, boot, runs>>
    /\ NotTask

\* The end of the stream and the final `then`: what was gathered is stored
\* and saved when no channel failed, and the next run is scheduled.
\* `saved` is whether writing the cache file succeeds.
Finish(w, saved) ==
    /\ w \in waits
    /\ (w.stage = "next" /\ w.todo = <<>>) \/ w.result = "Err"
    /\ LET streamed == w.result = "Ok"
           ok == streamed /\ saved
           file == CASE w.task = "scan_services" -> "services.json"
                     [] w.task = "sync_clocks" -> "clocks.json"
                     [] OTHER -> "schedules.json"
           next == Run(w.task, clock + reschedule_after(w.task, ok))
       IN /\ services' = IF w.task = "scan_services" /\ streamed
                         THEN w.acc ELSE services
          /\ max_elapsed' = IF w.task = "update_schedules" /\ ok
                            THEN update_max_elapsed(max_elapsed,
                                                    clock - w.now)
                            ELSE max_elapsed
          /\ runs' = runs \cup {next}
          /\ task_last' = [TaskLast("finish", w.task,
                IF ok THEN "Ok" ELSE IF streamed THEN "SaveFailed" ELSE "Err",
                {next},
                IF w.task = "update_schedules" /\ publishes(streamed, saved)
                THEN 1 ELSE 0,
                IF ok THEN {file} ELSE {})
              EXCEPT !.clocks = w.task = "sync_clocks"
                                /\ publishes(streamed, saved)]
    /\ waits' = waits \ {w}
    /\ UNCHANGED <<clock, boot>>
    /\ NotTask

TaskNext ==
    \/ \E disabled \in BOOLEAN, cache \in Caches : Started(disabled, cache)
    \/ \E t \in TaskInstants : TaskTick(t)
    \/ \E run \in runs, order \in Orders(1 .. MaxChannels) \cup {ChannelList} :
          RunTask(run, order)
    \/ \E w \in waits : OpenTuner(w)
    \/ \E w \in waits, outcome \in ReplyOutcomes : Reply(w, outcome)
    \/ \E w \in waits, outcome \in ReadOutcomes : Read(w, outcome)
    \/ \E w \in waits, saved \in BOOLEAN : Finish(w, saved)

TaskSpec == TaskInit /\ [][TaskNext]_vars

RunsOf(task) == {r \in runs : r.task = task}
WaitsOf(task) == {w \in waits : w.task = task}

\* C22: once the actor has started with its tasks enabled, each task has
\* exactly one run that is scheduled or in flight; and the end of a run
\* schedules exactly one run of the same task, 23 h, 17 h or 15 min later
\* when the run succeeded and 1 h, 1 h or 5 min later when it did not.
C22_SelfRescheduling ==
    /\ [](boot.started /\ ~boot.disabled =>
            \A task \in Tasks :
                Cardinality(RunsOf(task)) + Cardinality(WaitsOf(task)) = 1)
    /\ [][task_last'.op = "finish" =>
            LET task == task_last'.task
                ok == task_last'.outcome = "Ok"
                after == CASE task = "scan_services" ->
                                 IF ok THEN 82800 ELSE 3600
                           [] task = "sync_clocks" ->
                                 IF ok THEN 61200 ELSE 3600
                           [] task = "update_schedules" ->
                                 IF ok THEN 900 ELSE 300
            IN /\ task_last'.scheduled = {Run(task, clock + after)}
               /\ runs' = runs \cup task_last'.scheduled
               /\ RunsOf(task) = {}
               /\ \A w \in waits' : w.task # task]_vars

C22_Witness ==
    /\ task_last.op = "finish"
    /\ task_last.task = "update_schedules"
    /\ task_last.outcome = "Err"
    /\ \E r \in runs : r.task = "update_schedules" /\ r.due = clock + 300
    /\ \E r \in runs : r.task = "scan_services" /\ r.due > clock + 3600

\* The futures that hold a tuner or a command of the task.
TunersHeld == {w \in waits : w.stage \in {"opening", "reading"}}

\* C23: at most one task is in flight and it has at most one tuner open;
\* a task whose timer is due starts only when no task is in flight, the
\* one that was having scheduled its next run.
C23_TasksAreSerialised ==
    /\ [](Cardinality(waits) <= 1 /\ Cardinality(TunersHeld) <= 1)
    /\ [][task_last'.op \in {"run", "postpone"} =>
            /\ waits = {}
            /\ \A task \in Tasks : RunsOf(task) # {}
            /\ Cardinality(waits') <= 1]_vars

C23_Witness ==
    /\ \E w \in waits : w.stage = "reading" /\ w.task = "scan_services"
    /\ \E r \in runs : r.task = "sync_clocks" /\ r.due <= clock
    /\ \E r \in runs : r.task = "update_schedules" /\ r.due <= clock

\* The services of the channels from the i-th on whose output parsed.
RECURSIVE ServicesParsed(_, _)
ServicesParsed(outputs, i) ==
    IF i > Len(outputs) THEN <<>>
    ELSE (IF outputs[i] = None THEN <<>> ELSE <<EpgService(ChannelList[i])>>)
         \o ServicesParsed(outputs, i + 1)

\* C24: in scan_services a channel whose output does not parse leaves the
\* stream without an error and adds nothing, and the next channel is taken;
\* a run with no other error and whose save succeeds is a success: the
\* services are those of the channels that parsed, in channel order,
\* services.json is written and the next run is 23 h later.
C24_ScanSkipsUnparseable ==
    [][/\ (task_last'.op = "read" /\ task_last'.task = "scan_services"
           /\ task_last'.outcome = "Unparseable") =>
              \E w \in waits : \E v \in waits' :
                 /\ v.result = "Ok" /\ v.stage = "next"
                 /\ v.todo = Tail(w.todo) /\ v.acc = w.acc
       /\ (task_last'.op = "finish" /\ task_last'.task = "scan_services") =>
              \A w \in waits :
                 (w.result = "Ok" /\ task_last'.outcome # "SaveFailed") =>
                    /\ task_last'.outcome = "Ok"
                    /\ Len(w.outputs) = MaxChannels
                    /\ services' = ServicesParsed(w.outputs, 1)
                    /\ task_last'.wrote = {"services.json"}
                    /\ task_last'.scheduled =
                          {Run("scan_services", clock + 82800)}]_vars

C24_Witness ==
    /\ task_last.op = "finish" /\ task_last.task = "scan_services"
    /\ task_last.outcome = "Ok"
    /\ services = <<EpgService(MaxChannels)>>
    /\ \E r \in runs : r.task = "scan_services" /\ r.due = clock + 82800

\* C25: a failure with one channel (no tuner, no pipe to the command,
\* output that does not parse) leaves the stream without an error, and the
\* channels after it are still to be done.
C25_ChannelFailuresAreSwallowed ==
    [][(\/ task_last'.op = "reply" /\ task_last'.outcome # "Ok"
        \/ task_last'.op = "read" /\ task_last'.outcome = "Unparseable") =>
           \E w \in waits : \E v \in waits' :
              /\ v.task = w.task
              /\ v.result = "Ok" /\ v.stage = "next"
              /\ v.todo = Tail(w.todo)]_vars

\* C27: started sends exactly one UpdateEpg whatever the cache files are,
\* and schedules scan_services, sync_clocks and update_schedules 0 s, 5 s
\* and 10 s later, or no run at all when the tasks are disabled; no task
\* runs before.
C27_StartupEmitsOnceAndSchedules ==
    /\ [](~boot.started \/ boot.disabled => runs = {} /\ waits = {})
    /\ [][task_last'.op = "started" =>
            /\ task_last'.emitted = 1
            /\ runs' = IF boot'.disabled THEN {}
                       ELSE {Run("scan_services", clock),
                             Run("sync_clocks", clock + 5),
                             Run("update_schedules", clock + 10)}]_vars

\* ------------------------------------- the tuner manager, further claims

\* The tuners with a session.
ActiveTuners == {i \in TunerIndexes : IsActive(i)}

\* C33: the sessions of two Active tuners are never tuned to the same
\* channel of the same channel type.
C33_ActiveChannelsDistinct ==
    \A i, j \in ActiveTuners :
        (/\ SessionOf(i).channel_type = SessionOf(j).channel_type
         /\ SessionOf(i).channel = SessionOf(j).channel) => i = j

\* Every tuner is Active, two of them on the same channel type, the last
\* of them activated for a channel no session was tuned to.
C33_Witness ==
    /\ ActiveTuners = TunerIndexes
    /\ \E i, j \in ActiveTuners :
          /\ i # j
          /\ SessionOf(i).channel_type = SessionOf(j).channel_type
          /\ SessionOf(i).channel # SessionOf(j).channel
    /\ last.op = "free" /\ last.result = "Ok"

\* C34: after every handler an Active tuner has a subscriber.
C34_ActiveHasSubscriber ==
    \A i \in ActiveTuners : DOMAIN SubscribersOf(i) # {}

\* A StopStreaming took the last subscriber of a tuner, which is Inactive
\* now, while another tuner is still Active.
C34_Witness ==
    /\ last.op = "StopStreaming" /\ last.result = "Ok"
    /\ last.sent = "Unsubscribe"
    /\ IsInactive(last.index)
    /\ ActiveTuners # {}

\* C35: no StartStreaming message the manager can receive, from a web user
\* or a tracker, makes it call activate on an Active tuner or subscribe on
\* an Inactive one; and no handled message did.
C35_Holds(channel_type, channel, user, r) == r.result # "panic"
C35_AssertionsUnreachable ==
    /\ last.result # "panic"
    /\ EveryStart(C35_Holds)

\* A tuner was grabbed and activated again while a client holds a stream of
\* the session dropped, whose tracker can still ask for it.
C35_Witness ==
    /\ last.op = "grab" /\ last.result = "Ok"
    /\ \E x \in held : x.ended /\ IsActive(TunerOf(x.id))

\* The subscription ids of a set of streams.
IdsOf(streams) == {x.id : x \in streams}

\* C36: the rollback of a subscription whose Subscribe could not be sent
\* drops no session but the one that issued it, and not that one when it
\* has another subscriber.
C36_RollbackIsConfined ==
    [][(last'.op = "SubscribeReply" /\ last'.result = "MailboxError") =>
          \A p \in pending :
             (p.id \notin IdsOf(pending') /\ TunerOf(p.id) = last'.index) =>
                \A i \in ActiveTuners :
                   (\/ SessionOf(i).id # p.id.session_id
                    \/ p.ended
                    \/ DOMAIN SubscribersOf(i) # {p.id.serial_number}) =>
                      SessionKept(tuners', i)]_vars

\* The results of Tuner::activate that are errors of the command template,
\* of parsing the command and of spawning it.
ActivationErrors == {"RenderFailed", "UnableToParse", "UnableToSpawn"}

\* C37: a StartStreaming that fails with an activation error keeps every
\* session that was active, with its subscribers and its process.
C37_Holds(channel_type, channel, user, r) ==
    r.result \in ActivationErrors =>
        /\ r.killed = {} /\ r.ended = {}
        /\ \A i \in ActiveTuners : SessionKept(r.tuners, i)
C37_FailedActivationKeepsSessions == EveryStart(C37_Holds)

\* C38: a tracker is subscribed only to the session its stream id names;
\* when the tuner has another session the request is TunerUnavailable.
C38_Holds(channel_type, channel, user, r) ==
    user.info.kind = "Tracker" =>
        LET sid == user.info.stream_id.session_id
            i == sid.tuner_index
            rides == IsActive(i) /\ SessionOf(i).id = sid
                     /\ \A x \in held : x.id = user.info.stream_id => ~x.ended
        IN /\ r.result = "Ok" => rides
           /\ ~rides => r.result = "TunerUnavailable"
C38_TrackerRidesItsSession == EveryStart(C38_Holds)

\* ------------------------------------------ EpgSchedule::update, its frame

\* C31: update(section) with table_id in 0x50 .. 0x6F leaves the section in
\* the slot section_number % 8 of segment section_number / 8 of table
\* table_id - 0x50, which is allocated after it; every other table, every
\* other segment of that table, overnight_events and updated_at are as
\* before (a table not allocated before counting as a table of empty
\* segments).
C31_UpdateTouchesOneSegment ==
    [][sched_last'.op = "update" =>
         LET section == sched_last'.section.value
             i == section.table_id - 80
             j == section.section_number \div 8
             k == section.section_number % 8
             before == IF sched.tables[i] = None THEN EpgTableDefault
                       ELSE sched.tables[i].value
         IN /\ section.table_id \in 80 .. 111
            /\ sched'.tables[i] # None
            /\ sched'.tables[i].value.segments[j].sections[k] =
                  Some(EpgSection(section))
            /\ \A x \in 0 .. NumTables - 1 :
                  x # i => sched'.tables[x] = sched.tables[x]
            /\ \A y \in 0 .. NumSegments - 1 :
                  y # j => sched'.tables[i].value.segments[y] =
                              before.segments[y]
            /\ sched'.overnight_events = sched.overnight_events
            /\ sched'.updated_at = sched.updated_at
            /\ sched'.service_triple = sched.service_triple]_vars

\* Sections are stored in both tables and in two segments of table 0, the
\* last update being one of segment 1.
C31_Witness ==
    /\ sched_last.op = "update"
    /\ sched_last.section.value.section_number = NumSections
    /\ sched_last.section.value.table_id = FirstTableId
    /\ \E p \in StoredAt(sched) : p[1] = 0 /\ p[2] = 0
    /\ \E p \in StoredAt(sched) : p[1] = 1
    /\ sched.overnight_events # <<>>

\* ------------------------------------------------ the tasks, further claims

\* C32: a run of update_schedules sends UpdateEpg, and a run of sync_clocks
\* calls update_clocks, only when every channel was done without an error
\* and the cache file was written; a run whose save fails is a failure that
\* publishes nothing, and so is a run with a channel that failed.
C32_PublishAfterPersist ==
    [][task_last'.op = "finish" =>
         LET task == task_last'.task
             published == task_last'.emitted > 0 \/ task_last'.clocks
         IN /\ published =>
                  /\ task_last'.outcome = "Ok"
                  /\ \A w \in waits : w.task = task =>
                        w.result = "Ok" /\ w.todo = <<>>
                  /\ task = "update_schedules" =>
                        task_last'.wrote = {"schedules.json"}
                  /\ task = "sync_clocks" =>
                        task_last'.wrote = {"clocks.json"}
            /\ task_last'.outcome # "Ok" =>
                  /\ ~published
                  /\ task_last'.wrote = {}
            /\ (task_last'.outcome = "Ok" /\ task # "scan_services") =>
                  published
            /\ task_last'.emitted <= 1]_vars

\* A run of sync_clocks whose channels were all read and whose clocks.json
\* could not be written.
C32_Witness ==
    /\ task_last.op = "finish" /\ task_last.task = "sync_clocks"
    /\ task_last.outcome = "SaveFailed"
    /\ ~task_last.clocks
    /\ \E r \in runs : r.task = "sync_clocks" /\ r.due = clock + 3600

\* ------------------------------------------ the Epg actor, further claims

\* C39: a run of update_schedules does not go on past the midnight after
\* its start; and update_tables writes a section into a schedule that holds
\* sections only on the day prepare_schedules last dealt with the schedule,
\* which is when the snapshot for that day's midnight is taken.
C39_SnapshotPrecedesWrites ==
    /\ [](sweep.phase = "running" => clock \div Day = sweep.now \div Day)
    /\ [][epg_last'.op = "tables" =>
            \A t \in epg_last'.read \cap DOMAIN schedules :
                StoredAt(schedules[t]) # {} => prepared[t] = clock \div Day]_vars

\* C40: a run that is postponed schedules a run that passes the check: at
\* the instant the postponed run is due, 10 s after the next midnight, the
\* time left in the day is at least estimate_time(), whatever max_elapsed
\* the successful runs have left.  (A postponed run that does not pass is
\* postponed to 10 s after the following midnight, where the same holds of
\* it, max_elapsed being changed by a sweep only.)
C40_PostponedRunIsAdmitted ==
    [][epg_last'.op = "postpone" =>
          /\ max_elapsed' = max_elapsed
          /\ \A due \in timers' \ timers :
                ~update_schedules_postpones(due, max_elapsed')]_vars

====
